---- MODULE Spec2Model ----
(***************************************************************************)
(* A model of sbomgen's dependency-extraction pipeline (package analyzer): *)
(* the directory walk of ProjectAnalyzer.AnalyzeDir and the five manifest  *)
(* parsers.  Go strings are sequences of one-character strings, so that    *)
(* splitting, trimming and searching are computed as the code computes     *)
(* them.  A path is the sequence of its elements.                          *)
(***************************************************************************)
EXTENDS Integers, Sequences, FiniteSets, TLC

VARIABLES fsys, pc, ret, args, sbom, calls

vars == <<fsys, pc, ret, args, sbom, calls>>

\* no command line has been given, no SBOM created and no call made on one
NoCall == args = <<>> /\ sbom = "nil" /\ calls = <<>>

----------------------------------------------------------------------------
(* Bounds of the model. *)

\* longest single line enumerated exhaustively over a parser's alphabet
MaxLineLen == 5

\* most lines of a manifest assembled from the fixture lines
MaxLines == 3

\* most lines of a Cargo.toml assembled from its kinds of line
MaxCargoLines == 5

\* most <dependency> blocks of a pom.xml
MaxBlocks == 2

\* most entries of a dependency map of a package.json
MaxDeps == 2

\* most files and directories below the root of the analyzed tree
MaxEntries == 3

\* deepest nesting of an entry below the root of the analyzed tree
MaxDepth == 3

----------------------------------------------------------------------------
(* Go's strings package, on sequences of characters. *)

SetMin(S) == CHOOSE x \in S : \A y \in S : x <= y

SetMax(S) == CHOOSE x \in S : \A y \in S : x >= y

\* unicode.IsSpace on the characters the model uses
IsSpace(c) == c \in {" ", "\t", "\n", "\r"}

\* strings.TrimSpace
TrimSpace(s) ==
  LET ns == {i \in 1..Len(s) : ~IsSpace(s[i])}
  IN  IF ns = {} THEN <<>> ELSE SubSeq(s, SetMin(ns), SetMax(ns))

\* strings.HasPrefix
HasPrefix(s, prefix) ==
  /\ Len(s) >= Len(prefix)
  /\ SubSeq(s, 1, Len(prefix)) = prefix

\* strings.Index: the 0-based offset of the first occurrence, or -1
Index(s, substr) ==
  IF substr = <<>> THEN 0
  ELSE LET at == {i \in 0..(Len(s) - Len(substr)) :
                    /\ s[i + 1] = substr[1]
                    /\ SubSeq(s, i + 1, i + Len(substr)) = substr}
       IN  IF at = {} THEN -1 ELSE SetMin(at)

\* strings.Contains
Contains(s, substr) == Index(s, substr) >= 0

\* s[from:] with a 0-based offset
SliceFrom(s, from) == SubSeq(s, from + 1, Len(s))

\* s[from:to] with 0-based offsets
Slice(s, from, to) == SubSeq(s, from + 1, to)

\* strings.Split with a non-empty separator
RECURSIVE Split(_, _)
Split(s, sep) ==
  LET i == Index(s, sep)
  IN  IF i < 0 THEN <<s>>
      ELSE <<Slice(s, 0, i)>> \o Split(SliceFrom(s, i + Len(sep)), sep)

\* strings.SplitN(s, sep, 2)
SplitN2(s, sep) ==
  LET i == Index(s, sep)
  IN  IF i < 0 THEN <<s>>
      ELSE <<Slice(s, 0, i), SliceFrom(s, i + Len(sep))>>

\* strings.Fields
RECURSIVE Fields(_)
Fields(s) ==
  LET ns == {i \in 1..Len(s) : ~IsSpace(s[i])}
  IN  IF ns = {} THEN <<>>
      ELSE LET b  == SetMin(ns)
               sp == {i \in b..Len(s) : IsSpace(s[i])}
               e  == IF sp = {} THEN Len(s) + 1 ELSE SetMin(sp)
           IN  <<SubSeq(s, b, e - 1)>> \o Fields(SubSeq(s, e, Len(s)))

\* strings.Trim(s, cutset) for a cutset given as a set of characters
Trim(s, cutset) ==
  LET keep == {i \in 1..Len(s) : s[i] \notin cutset}
  IN  IF keep = {} THEN <<>> ELSE SubSeq(s, SetMin(keep), SetMax(keep))

\* the text after the last slash, trailing slashes not removed
filepathBase_LastSegment(path) ==
  LET sl == {i \in 1..Len(path) : path[i] = "/"}
  IN  IF sl = {} THEN path ELSE SubSeq(path, SetMax(sl) + 1, Len(path))

\* filepath.Base on a slash-separated string
filepathBase(path) ==
  IF path = <<>> THEN <<".">>
  ELSE LET t == {i \in 1..Len(path) : path[i] # "/"}
       IN  IF t = {} THEN <<"/">>
           ELSE LET stripped == SubSeq(path, 1, SetMax(t))
                    sl == {i \in 1..Len(stripped) : stripped[i] = "/"}
                IN  IF sl = {} THEN stripped
                    ELSE SubSeq(stripped, SetMax(sl) + 1, Len(stripped))

\* the lines of a manifest joined by newlines (what a test fixture writes)
RECURSIVE JoinLines(_)
JoinLines(ls) ==
  IF ls = <<>> THEN <<>>
  ELSE IF Len(ls) = 1 THEN ls[1]
  ELSE ls[1] \o <<"\n">> \o JoinLines(Tail(ls))

\* every string over an alphabet of at most n characters
StringsUpTo(alphabet, n) == UNION {[1..k -> alphabet] : k \in 0..n}

\* every sequence of 1..n elements of S
SeqsUpTo(S, n) == UNION {[1..k -> S] : k \in 1..n}

RECURSIVE Flatten(_)
Flatten(ss) == IF ss = <<>> THEN <<>> ELSE Head(ss) \o Flatten(Tail(ss))

----------------------------------------------------------------------------
(* sbom.Component, and the result of an Analyze call. *)

Component(name, version, supplier, purl, description) ==
  [Name        |-> name,
   Version     |-> version,
   Supplier    |-> supplier,
   PURL        |-> purl,
   Description |-> description]

\* fmt.Sprintf(format, name, version) for a format prefix + "%s@%s"
Sprintf(prefix, name, version) == prefix \o name \o <<"@">> \o version

Ok(components) == [components |-> components, err |-> FALSE]

Failed == [components |-> <<>>, err |-> TRUE]

----------------------------------------------------------------------------
(* The file system the analyzers read: a function from the paths that      *)
(* exist to their entries.                                                 *)

File(data) == [kind |-> "file", readable |-> TRUE, data |-> data]

UnreadableFile == [kind |-> "file", readable |-> FALSE, data |-> <<>>]

\* os.ReadFile succeeds on an existing, readable regular file
ReadFileOk(fs, path) ==
  /\ path \in DOMAIN fs
  /\ fs[path].kind = "file"
  /\ fs[path].readable

----------------------------------------------------------------------------
(* NPMAnalyzer.  The bytes of a package.json are modelled by the JSON value *)
(* they spell, or by Malformed when they spell none; json.Unmarshal is the  *)
(* decoding of that value into the struct of Analyze.                       *)

NPMName == <<"n","p","m">>

Malformed == [t |-> "malformed"]

JNull == [t |-> "null"]

JNumber == [t |-> "number"]

JString(s) == [t |-> "string", s |-> s]

\* an object: a function from its member names to their values
JObject(members) == [t |-> "object", members |-> members]

\* decoding a value into a Go string field fails unless it is a string or null
DecodesToString(v) == v.t \in {"string", "null"}

\* decoding a value into a map[string]string fails unless it is null or an
\* object whose values are strings or null
DecodesToStringMap(v) ==
  \/ v.t = "null"
  \/ /\ v.t = "object"
     /\ \A k \in DOMAIN v.members : DecodesToString(v.members[k])

\* json.Unmarshal(data, &pkg) returns nil
UnmarshalOk(doc) ==
  \/ doc.t = "null"
  \/ /\ doc.t = "object"
     /\ \A k \in DOMAIN doc.members :
          /\ k \in {"name", "version"} => DecodesToString(doc.members[k])
          /\ k \in {"dependencies", "devDependencies"}
               => DecodesToStringMap(doc.members[k])

\* the map[string]string a member decodes to: nil when absent or null
StringMapOf(doc, field) ==
  IF doc.t = "object" /\ field \in DOMAIN doc.members
       /\ doc.members[field].t = "object"
  THEN [k \in DOMAIN doc.members[field].members |->
          IF doc.members[field].members[k].t = "string"
          THEN doc.members[field].members[k].s
          ELSE <<>>]
  ELSE <<>>

\* a range over a map that may stop before it has visited every key
KeyOrders_Prefixes(m) ==
  UNION {{o \in [1..n -> DOMAIN m] :
            \A i, j \in DOMAIN o : i # j => o[i] # o[j]} :
           n \in 0..Cardinality(DOMAIN m)}

\* every order in which a range over a Go map may visit its keys
KeyOrders(m) ==
  {o \in [1..Cardinality(DOMAIN m) -> DOMAIN m] :
     \A i, j \in DOMAIN o : i # j => o[i] # o[j]}

\* the component literal of the two loops
NPMComponent(name, version, description) ==
  Component(name, version, <<"n","p","m">>,
            Sprintf(<<"p","k","g",":","n","p","m","/">>, name, version),
            description)

DevDescription == <<"d","e","v","e","l","o","p","m","e","n","t"," ","d","e","p","e","n","d","e","n","c","y">>

\* NPMRange without the development-dependency annotation
NPMRange_NoDevMark(m, o, description) ==
  [i \in 1..Len(o) |-> NPMComponent(o[i], m[o[i]], <<>>)]

\* the components appended by one of the two loops, visiting keys in order o
NPMRange(m, o, description) ==
  [i \in 1..Len(o) |-> NPMComponent(o[i], m[o[i]], description)]

\* NPMAnalyzer.Analyze: every result the call may return
NPMAnalyze(fs, path) ==
  IF ~ReadFileOk(fs, path) THEN {Failed}
  ELSE IF ~UnmarshalOk(fs[path].data) THEN {Failed}
  ELSE LET deps == StringMapOf(fs[path].data, "dependencies")
           dev  == StringMapOf(fs[path].data, "devDependencies")
       IN  {Ok(NPMRange(deps, o1, <<>>) \o NPMRange(dev, o2, DevDescription)) :
              o1 \in KeyOrders(deps), o2 \in KeyOrders(dev)}

----------------------------------------------------------------------------
(* PyPIAnalyzer *)

PyPIName == <<"p","y","p","i">>

\* the component literal of the loop
PyPIComponent(name, version) ==
  Component(name, version, <<"p","y","p","i">>,
            Sprintf(<<"p","k","g",":","p","y","p","i","/">>, name, version),
            <<>>)

\* PyPILine without the trimming of the two sides
PyPILine_NoTrim(raw) ==
  LET line == TrimSpace(raw)
  IN  IF line = <<>> \/ HasPrefix(line, <<"#">>) THEN <<>>
      ELSE LET p1 == Split(line, <<"=","=">>)
               p2 == IF Len(p1) < 2 THEN Split(line, <<">","=">>) ELSE p1
               parts == IF Len(p2) < 2 THEN Split(line, <<"<","=">>) ELSE p2
           IN  IF Len(parts) >= 2
               THEN <<PyPIComponent(parts[1], parts[2])>>
               ELSE <<>>

\* PyPILine taking everything after the first operator as the version
PyPILine_WholeRest(raw) ==
  LET line == TrimSpace(raw)
  IN  IF line = <<>> \/ HasPrefix(line, <<"#">>) THEN <<>>
      ELSE LET p1 == SplitN2(line, <<"=","=">>)
               p2 == IF Len(p1) < 2 THEN SplitN2(line, <<">","=">>) ELSE p1
               parts == IF Len(p2) < 2 THEN SplitN2(line, <<"<","=">>) ELSE p2
           IN  IF Len(parts) >= 2
               THEN <<PyPIComponent(TrimSpace(parts[1]),
                                    TrimSpace(parts[2]))>>
               ELSE <<>>

\* the body of the loop over the lines of requirements.txt
PyPILine(raw) ==
  LET line == TrimSpace(raw)
  IN  IF line = <<>> \/ HasPrefix(line, <<"#">>) THEN <<>>
      ELSE LET p1 == Split(line, <<"=","=">>)
               p2 == IF Len(p1) < 2 THEN Split(line, <<">","=">>) ELSE p1
               parts == IF Len(p2) < 2 THEN Split(line, <<"<","=">>) ELSE p2
           IN  IF Len(parts) >= 2
               THEN <<PyPIComponent(TrimSpace(parts[1]),
                                    TrimSpace(parts[2]))>>
               ELSE <<>>

RECURSIVE PyPILines(_)
PyPILines(lines) ==
  IF lines = <<>> THEN <<>>
  ELSE PyPILine(Head(lines)) \o PyPILines(Tail(lines))

PyPIAnalyze(fs, path) ==
  IF ~ReadFileOk(fs, path) THEN Failed
  ELSE Ok(PyPILines(Split(fs[path].data, <<"\n">>)))

----------------------------------------------------------------------------
(* GoAnalyzer *)

GoName == <<"g","o">>

\* a component literal whose PURL keeps the whole module path
GoComponent_FullPathPURL(name, version) ==
  Component(filepathBase(name), version, <<"g","o">>,
            Sprintf(<<"p","k","g",":","g","o","/">>, name, version), <<>>)

\* the component literal of the loop
GoComponent(name, version) ==
  Component(filepathBase(name), version, <<"g","o">>,
            Sprintf(<<"p","k","g",":","g","o","/">>, filepathBase(name),
                    version),
            <<>>)

\* GoLine taking a line with any whitespace character as a candidate
GoLine_AnyWhitespace(raw) ==
  LET line == TrimSpace(raw)
  IN  IF \/ HasPrefix(line, <<"r","e","q","u","i","r","e"," ">>)
         \/ (line # <<>> /\ \E i \in 1..Len(line) : IsSpace(line[i]))
      THEN LET parts == Fields(line)
           IN  IF Len(parts) >= 2
               THEN <<GoComponent(TrimSpace(parts[1]),
                                  TrimSpace(parts[2]))>>
               ELSE <<>>
      ELSE <<>>

\* the body of the loop over the lines of go.mod
GoLine(raw) ==
  LET line == TrimSpace(raw)
  IN  IF \/ HasPrefix(line, <<"r","e","q","u","i","r","e"," ">>)
         \/ (line # <<>> /\ Contains(line, <<" ">>))
      THEN LET parts == Fields(line)
           IN  IF Len(parts) >= 2
               THEN <<GoComponent(TrimSpace(parts[1]),
                                  TrimSpace(parts[2]))>>
               ELSE <<>>
      ELSE <<>>

RECURSIVE GoLines(_)
GoLines(lines) ==
  IF lines = <<>> THEN <<>>
  ELSE GoLine(Head(lines)) \o GoLines(Tail(lines))

GoAnalyze(fs, path) ==
  IF ~ReadFileOk(fs, path) THEN Failed
  ELSE Ok(GoLines(Split(fs[path].data, <<"\n">>)))

----------------------------------------------------------------------------
(* CargoAnalyzer *)

CargoName == <<"c","a","r","g","o">>

\* the component literal of both kinds of entry
CargoComponent(name, version) ==
  Component(name, version, <<"c","a","r","g","o">>,
            Sprintf(<<"p","k","g",":","c","a","r","g","o","/">>, name, version),
            <<>>)

\* CargoEntry reading every value as a bare quoted string
CargoEntry_BareOnly(line) ==
  LET parts == SplitN2(line, <<"=">>)
  IN  IF Len(parts) = 2
      THEN <<CargoComponent(TrimSpace(parts[1]),
                            Trim(TrimSpace(parts[2]), {"\""}))>>
      ELSE <<>>

\* CargoEntry taking an inline version up to the last double quote
CargoEntry_LastQuote(line) ==
  LET parts == SplitN2(line, <<"=">>)
  IN  IF Len(parts) = 2
      THEN LET name        == TrimSpace(parts[1])
               versionPart == TrimSpace(parts[2])
               quotes      == {i \in 1..Len(versionPart) : versionPart[i] = "\""}
           IN  IF HasPrefix(versionPart, <<"{">>)
               THEN IF Cardinality(quotes) >= 2
                    THEN <<CargoComponent(name,
                             SubSeq(versionPart, SetMin(quotes) + 1,
                                    SetMax(quotes) - 1))>>
                    ELSE <<>>
               ELSE <<CargoComponent(name, Trim(versionPart, {"\""}))>>
      ELSE <<>>

\* the records appended by an entry line of the [dependencies] section
CargoEntry(line) ==
  LET parts == SplitN2(line, <<"=">>)
  IN  IF Len(parts) = 2
      THEN LET name        == TrimSpace(parts[1])
               versionPart == TrimSpace(parts[2])
           IN  IF HasPrefix(versionPart, <<"{">>)
               THEN LET versionStart == Index(versionPart, <<"\"">>)
                    IN  IF versionStart >= 0
                        THEN LET versionEnd ==
                                   Index(SliceFrom(versionPart, versionStart + 1),
                                         <<"\"">>)
                             IN  IF versionEnd >= 0
                                 THEN <<CargoComponent(name,
                                          Slice(versionPart, versionStart + 1,
                                                versionStart + versionEnd + 1))>>
                                 ELSE <<>>
                        ELSE <<>>
               ELSE <<CargoComponent(name, Trim(versionPart, {"\""}))>>
      ELSE <<>>

\* the state of the scan before the first line
CargoStart == [inDependencies |-> FALSE, components |-> <<>>]

\* CargoLine entering the section only on a line equal to [dependencies]
CargoLine_ExactHeader(st, raw) ==
  LET line == TrimSpace(raw)
  IN  IF line = <<"[","d","e","p","e","n","d","e","n","c","i","e","s","]">>
      THEN [st EXCEPT !.inDependencies = TRUE]
      ELSE IF HasPrefix(line, <<"[">>)
      THEN [st EXCEPT !.inDependencies = FALSE]
      ELSE IF st.inDependencies /\ line # <<>> /\ ~HasPrefix(line, <<"#">>)
      THEN [st EXCEPT !.components = @ \o CargoEntry(line)]
      ELSE st

\* the body of the loop over the lines of Cargo.toml
CargoLine(st, raw) ==
  LET line == TrimSpace(raw)
  IN  IF HasPrefix(line, <<"[","d","e","p","e","n","d","e","n","c","i","e","s","]">>)
      THEN [st EXCEPT !.inDependencies = TRUE]
      ELSE IF HasPrefix(line, <<"[">>)
      THEN [st EXCEPT !.inDependencies = FALSE]
      ELSE IF st.inDependencies /\ line # <<>> /\ ~HasPrefix(line, <<"#">>)
      THEN [st EXCEPT !.components = @ \o CargoEntry(line)]
      ELSE st

RECURSIVE CargoLines(_, _)
CargoLines(st, lines) ==
  IF lines = <<>> THEN st
  ELSE CargoLines(CargoLine(st, Head(lines)), Tail(lines))

CargoAnalyze(fs, path) ==
  IF ~ReadFileOk(fs, path) THEN Failed
  ELSE Ok(CargoLines(CargoStart, Split(fs[path].data, <<"\n">>)).components)

----------------------------------------------------------------------------
(* MavenAnalyzer *)

MavenName == <<"m","a","v","e","n">>

ArtifactIdTag == <<"a","r","t","i","f","a","c","t","I","d">>

VersionTag == <<"v","e","r","s","i","o","n">>

\* extractTag: the text between <tag> and the next </tag>, or ""
extractTag(line, tag) ==
  LET startTag == <<"<">> \o tag \o <<">">>
      endTag   == <<"<","/">> \o tag \o <<">">>
      start0   == Index(line, startTag)
  IN  IF start0 < 0 THEN <<>>
      ELSE LET start == start0 + Len(startTag)
               end   == Index(SliceFrom(line, start), endTag)
           IN  IF end < 0 THEN <<>> ELSE Slice(line, start, start + end)

\* the component literal of parsePomXML
MavenComponent(artifactId, version) ==
  Component(artifactId, version, <<"m","a","v","e","n">>,
            Sprintf(<<"p","k","g",":","m","a","v","e","n","/">>, artifactId,
                    version),
            <<>>)

\* MavenEntry emitting a record whenever the artifactId is found
MavenEntry_AnyVersion(line) ==
  IF /\ Contains(line, <<"<">> \o ArtifactIdTag \o <<">">>)
     /\ Contains(line, <<"<","/">> \o ArtifactIdTag \o <<">">>)
  THEN LET artifactId == extractTag(line, ArtifactIdTag)
           version    == extractTag(line, VersionTag)
       IN  IF artifactId # <<>>
           THEN <<MavenComponent(artifactId, version)>>
           ELSE <<>>
  ELSE <<>>

\* the records a line inside <dependencies> appends
MavenEntry(line) ==
  IF /\ Contains(line, <<"<">> \o ArtifactIdTag \o <<">">>)
     /\ Contains(line, <<"<","/">> \o ArtifactIdTag \o <<">">>)
  THEN LET artifactId == extractTag(line, ArtifactIdTag)
           version    == extractTag(line, VersionTag)
       IN  IF artifactId # <<>> /\ version # <<>>
           THEN <<MavenComponent(artifactId, version)>>
           ELSE <<>>
  ELSE <<>>

\* the state of the scan before the first line
MavenStart == [inDependencies |-> FALSE, components |-> <<>>]

\* the body of the loop over the lines of pom.xml
MavenLine(st, raw) ==
  LET line == TrimSpace(raw)
  IN  IF Contains(line, <<"<","d","e","p","e","n","d","e","n","c","i","e","s",">">>)
      THEN [st EXCEPT !.inDependencies = TRUE]
      ELSE IF Contains(line, <<"<","/","d","e","p","e","n","d","e","n","c","i","e","s",">">>)
      THEN [st EXCEPT !.inDependencies = FALSE]
      ELSE IF st.inDependencies
      THEN [st EXCEPT !.components = @ \o MavenEntry(line)]
      ELSE st

RECURSIVE MavenLines(_, _)
MavenLines(st, lines) ==
  IF lines = <<>> THEN st
  ELSE MavenLines(MavenLine(st, Head(lines)), Tail(lines))

parsePomXML(xmlContent) ==
  MavenLines(MavenStart, Split(xmlContent, <<"\n">>)).components

MavenAnalyze(fs, path) ==
  IF ~ReadFileOk(fs, path) THEN Failed
  ELSE Ok(parsePomXML(fs[path].data))

----------------------------------------------------------------------------
(* ProjectAnalyzer: the five analyzers in registration order, and the walk *)
(* of AnalyzeDir.  A directory has a mode: "rx" (it can be listed and its  *)
(* entries reached), "r" (it can be listed, but lstat of its entries       *)
(* fails) or "none" (it cannot be listed).                                 *)

Dir(mode) == [kind |-> "dir", mode |-> mode]

\* NewProjectAnalyzer: the registered analyzers
analyzers == <<"npm", "pypi", "go", "cargo", "maven">>

\* matchers of which the Maven one also accepts package.json
ManifestName_MavenTakesPackageJson(a) ==
  CASE a = "npm"   -> "package.json"
    [] a = "pypi"  -> "requirements.txt"
    [] a = "go"    -> "go.mod"
    [] a = "cargo" -> "Cargo.toml"
    [] a = "maven" -> "package.json"

\* the base name each analyzer's ShouldAnalyze compares with
ManifestName(a) ==
  CASE a = "npm"   -> "package.json"
    [] a = "pypi"  -> "requirements.txt"
    [] a = "go"    -> "go.mod"
    [] a = "cargo" -> "Cargo.toml"
    [] a = "maven" -> "pom.xml"

\* filepath.Base of a path given by its elements; info.Name() of its entry
PathBase(path) == path[Len(path)]

\* a matcher that hands setup.py and pyproject.toml to the PyPI parser too
ShouldAnalyze_PythonSignatures(a, path) ==
  \/ PathBase(path) = ManifestName(a)
  \/ a = "pypi" /\ PathBase(path) \in {"setup.py", "pyproject.toml"}

ShouldAnalyze(a, path) == PathBase(path) = ManifestName(a)

\* analyzer.Analyze(path): every result the call may return
Analyze(a, fs, path) ==
  CASE a = "npm"   -> NPMAnalyze(fs, path)
    [] a = "pypi"  -> {PyPIAnalyze(fs, path)}
    [] a = "go"    -> {GoAnalyze(fs, path)}
    [] a = "cargo" -> {CargoAnalyze(fs, path)}
    [] a = "maven" -> {MavenAnalyze(fs, path)}

\* a prune test that lets the walk descend into dist
IsPruned_NoDist(name) ==
  \/ name = "node_modules" \/ name = "vendor"
  \/ name = ".git" \/ name = "build"

\* the directory names the walk does not descend into
IsPruned(name) ==
  \/ name = "node_modules" \/ name = "vendor"
  \/ name = ".git" \/ name = "dist" \/ name = "build"

IsDir(fs, path) == fs[path].kind = "dir"

\* the names of the model in byte order, the order readDirNames sorts into
NameOrder ==
  <<".git", "Cargo.toml", "README.md", "build", "cwd", "dist", "go.mod",
    "lib", "myapp", "myproject", "node_modules", "package.json", "pom.xml", "proj",
    "pyproject.toml", "requirements.txt", "sbom.json", "setup.py", "src",
    "vendor">>

\* a listing of a directory in descending order of name
readDirNames_Descending(fs, dir) ==
  LET names == SelectSeq(NameOrder, LAMBDA n : Append(dir, n) \in DOMAIN fs)
  IN  [i \in 1..Len(names) |-> names[Len(names) + 1 - i]]

\* readDirNames: the sorted names of the entries of a directory
readDirNames(fs, dir) ==
  SelectSeq(NameOrder, LAMBDA n : Append(dir, n) \in DOMAIN fs)

Parent(path) == SubSeq(path, 1, Len(path) - 1)

\* os.Lstat succeeds: the entry exists and its directory lets it be reached
LstatOk(fs, path) ==
  /\ path \in DOMAIN fs
  /\ Parent(path) \in DOMAIN fs => fs[Parent(path)].mode = "rx"

\* a loop over the analyzers that drops the records accumulated so far
\* when a parser fails
RECURSIVE RunAnalyzers_ResetOnError(_, _, _, _)
RunAnalyzers_ResetOnError(acc, i, fs, path) ==
  IF i > Len(analyzers) THEN {acc}
  ELSE IF ShouldAnalyze(analyzers[i], path)
  THEN UNION {RunAnalyzers_ResetOnError(
                IF r.err THEN <<>> ELSE acc \o r.components, i + 1, fs, path) :
                r \in Analyze(analyzers[i], fs, path)}
  ELSE RunAnalyzers_ResetOnError(acc, i + 1, fs, path)

\* the loop over the analyzers in the callback, from analyzer i on: every
\* value allComponents may have after it, acc being its value before
RECURSIVE RunAnalyzers(_, _, _, _)
RunAnalyzers(acc, i, fs, path) ==
  IF i > Len(analyzers) THEN {acc}
  ELSE IF ShouldAnalyze(analyzers[i], path)
  THEN UNION {RunAnalyzers(IF r.err THEN acc ELSE acc \o r.components,
                           i + 1, fs, path) :
                r \in Analyze(analyzers[i], fs, path)}
  ELSE RunAnalyzers(acc, i + 1, fs, path)

\* a callback that hands a walk error back to filepath.Walk
walkFn_ReturnsWalkError(acc, fs, path, err) ==
  IF err THEN {[acc |-> acc, ret |-> "err"]}
  ELSE IF IsDir(fs, path) /\ IsPruned(PathBase(path))
  THEN {[acc |-> acc, ret |-> "SkipDir"]}
  ELSE {[acc |-> a, ret |-> "nil"] : a \in RunAnalyzers(acc, 1, fs, path)}

\* the callback given to filepath.Walk: every outcome of a call, the value
\* of allComponents after it and the nil or filepath.SkipDir it returns
walkFn(acc, fs, path, err) ==
  IF err THEN {[acc |-> acc, ret |-> "nil"]}
  ELSE IF IsDir(fs, path) /\ IsPruned(PathBase(path))
  THEN {[acc |-> acc, ret |-> "SkipDir"]}
  ELSE {[acc |-> a, ret |-> "nil"] : a \in RunAnalyzers(acc, 1, fs, path)}

\* filepath.walk, and its loop over the names of a directory
RECURSIVE walk(_, _, _), walkNames(_, _, _, _, _)
walk(acc, fs, path) ==
  IF ~IsDir(fs, path) THEN walkFn(acc, fs, path, FALSE)
  ELSE UNION {IF fs[path].mode = "none" \/ r1.ret # "nil" THEN {r1}
              ELSE walkNames(r1.acc, fs, path, readDirNames(fs, path), 1) :
                r1 \in walkFn(acc, fs, path, fs[path].mode = "none")}

walkNames(acc, fs, dir, names, i) ==
  IF i > Len(names) THEN {[acc |-> acc, ret |-> "nil"]}
  ELSE IF ~LstatOk(fs, Append(dir, names[i]))
  THEN UNION {IF r.ret # "nil" /\ r.ret # "SkipDir" THEN {r}
              ELSE walkNames(r.acc, fs, dir, names, i + 1) :
                r \in walkFn(acc, fs, Append(dir, names[i]), TRUE)}
  ELSE UNION {IF r.ret # "nil"
                 /\ (~IsDir(fs, Append(dir, names[i])) \/ r.ret # "SkipDir")
              THEN {r}
              ELSE walkNames(r.acc, fs, dir, names, i + 1) :
                r \in walk(acc, fs, Append(dir, names[i]))}

\* a Walk that hands the SkipDir of the root back to its caller
Walk_SkipDirIsError(fs, root) ==
  IF ~LstatOk(fs, root) THEN walkFn(<<>>, fs, root, TRUE)
  ELSE walk(<<>>, fs, root)

\* filepath.Walk: every outcome, the error it returns and the value of
\* allComponents
Walk(fs, root) ==
  {[acc |-> r.acc, ret |-> IF r.ret = "SkipDir" THEN "nil" ELSE r.ret] :
     r \in IF ~LstatOk(fs, root) THEN walkFn(<<>>, fs, root, TRUE)
           ELSE walk(<<>>, fs, root)}

\* ProjectAnalyzer.AnalyzeDir: every result the call may return
AnalyzeDir(fs, dir) ==
  {IF w.ret # "nil" THEN Failed ELSE Ok(w.acc) : w \in Walk(fs, dir)}

----------------------------------------------------------------------------
(* Specification SpecPyPI: PyPIAnalyzer.Analyze on one requirements.txt.   *)

RequirementsTxt == <<"requirements.txt">>

PyPIAlphabet == {"a", "1", " ", "=", ">", "<", "#"}

\* the lines of the repository's test fixture, and the other shapes of line
PyPIFixtureLines ==
  {<<"r","e","q","u","e","s","t","s",">","=","2",".","2","8",".","0">>,
   <<"f","l","a","s","k","=","=","2",".","2",".","0">>,
   <<"n","u","m","p","y","~","=","1",".","2","3",".","0">>,
   <<"#"," ","p","i","n","n","e","d">>,
   <<" "," ","d","j","a","n","g","o"," ","<","="," ","4",".","0"," ">>,
   <<"a","=","=","1","=","=","2">>,
   <<>>}

PyPIInputs(maxLen, maxLines) ==
  {File(d) : d \in StringsUpTo(PyPIAlphabet, maxLen)}
    \cup {File(JoinLines(ls)) : ls \in SeqsUpTo(PyPIFixtureLines, maxLines)}
    \cup {UnreadableFile}

NoResult == [components |-> <<>>, err |-> FALSE]

InitPyPI ==
  /\ fsys \in {(RequirementsTxt :> f) : f \in PyPIInputs(MaxLineLen, MaxLines)}
  /\ pc = "start"
  /\ ret = NoResult
  /\ NoCall

CallPyPIAnalyze ==
  /\ pc = "start"
  /\ ret' = PyPIAnalyze(fsys, RequirementsTxt)
  /\ pc' = "done"
  /\ UNCHANGED <<fsys, args, sbom, calls>>

NextPyPI == CallPyPIAnalyze

SpecPyPI == InitPyPI /\ [][NextPyPI]_vars

----------------------------------------------------------------------------
(* Claims about PyPIAnalyzer.Analyze, checked under SpecPyPI. *)

PinOps == {<<"=","=">>, <<">","=">>, <<"<","=">>}

\* the offsets of a line at which one of the operators ops stands
OpPositions(line, ops) ==
  {i \in 1..(Len(line) - 1) : <<line[i], line[i + 1]>> \in ops}

IsBlankLine(line) == \A i \in 1..Len(line) : IsSpace(line[i])

IsCommentLine(line) ==
  \E i \in 1..Len(line) :
    /\ line[i] = "#"
    /\ \A j \in 1..(i - 1) : IsSpace(line[j])

\* <name><op><version> with the operator standing at exactly one place
IsPinLine(line, ops) ==
  /\ Cardinality(OpPositions(line, ops)) = 1
  /\ ~IsBlankLine(line)
  /\ ~IsCommentLine(line)

PinName(line, ops) ==
  LET k == CHOOSE i \in OpPositions(line, ops) : TRUE
  IN  TrimSpace(SubSeq(line, 1, k - 1))

PinVersion(line, ops) ==
  LET k == CHOOSE i \in OpPositions(line, ops) : TRUE
  IN  TrimSpace(SubSeq(line, k + 2, Len(line)))

\* the lines C5 speaks of
C5_Covers(line) ==
  \/ IsPinLine(line, PinOps)
  \/ IsBlankLine(line)
  \/ IsCommentLine(line)
  \/ OpPositions(line, PinOps) = {}

\* what C5 says a line yields: its (name, version) pairs
C5_Expected(line) ==
  IF IsPinLine(line, PinOps)
  THEN <<  <<PinName(line, PinOps), PinVersion(line, PinOps)>>  >>
  ELSE <<>>

RECURSIVE C5_ExpectedAll(_)
C5_ExpectedAll(lines) ==
  IF lines = <<>> THEN <<>>
  ELSE C5_Expected(Head(lines)) \o C5_ExpectedAll(Tail(lines))

NameVersions(components) ==
  [i \in 1..Len(components) |->
     <<components[i].Name, components[i].Version>>]

PyPIData == fsys[RequirementsTxt].data

PyPIFileLines == Split(PyPIData, <<"\n">>)

FixtureOps == {<<">","=">>, <<"=","=">>, <<"~","=">>}

\* C6: PyPIAnalyzer.Analyze returns one component per requirement line of a
\* requirements.txt whose lines pin a version with >=, == or ~=, each with
\* supplier pypi.
C6_OneComponentPerRequirement ==
  (/\ pc = "done"
   /\ ReadFileOk(fsys, RequirementsTxt)
   /\ \A i \in 1..Len(PyPIFileLines) : IsPinLine(PyPIFileLines[i], FixtureOps))
  => /\ ~ret.err
     /\ Len(ret.components) = Len(PyPIFileLines)
     /\ \A i \in 1..Len(ret.components) :
          ret.components[i].Supplier = <<"p","y","p","i">>

\* the operator of a line by priority: == if the line contains it, otherwise
\* >=, otherwise <=; <<>> when it contains none
PickedOp(line) ==
  IF Contains(line, <<"=","=">>) THEN <<"=","=">>
  ELSE IF Contains(line, <<">","=">>) THEN <<">","=">>
  ELSE IF Contains(line, <<"<","=">>) THEN <<"<","=">>
  ELSE <<>>

\* the text of a line before the first occurrence of op, and the text after it
BeforeFirst(line, op) == SubSeq(line, 1, Index(line, op))

AfterFirst(line, op) == SubSeq(line, Index(line, op) + 3, Len(line))

\* the text after the first occurrence of op, up to its next occurrence
UpToNext(line, op) ==
  LET rest == AfterFirst(line, op)
  IN  IF Contains(rest, op) THEN SubSeq(rest, 1, Index(rest, op)) ELSE rest

\* the (name, version) pairs of the lines; the version is trimmed from the
\* whole text after the first occurrence of the operator when whole is TRUE,
\* from the text up to its next occurrence otherwise
RECURSIVE PairsOf(_, _)
PairsOf(lines, whole) ==
  IF lines = <<>> THEN <<>>
  ELSE LET line == Head(lines)
           op   == PickedOp(line)
       IN  (IF IsBlankLine(line) \/ IsCommentLine(line) \/ op = <<>>
            THEN <<>>
            ELSE << <<TrimSpace(BeforeFirst(line, op)),
                      TrimSpace(IF whole THEN AfterFirst(line, op)
                                         ELSE UpToNext(line, op))>> >>)
           \o PairsOf(Tail(lines), whole)

\* C19 as stated: every non-blank, non-comment line yields a record for the
\* operator picked by priority, whose name is the trimmed text before the
\* first occurrence of the operator and whose version is the whole trimmed
\* text after that occurrence, also when the operator occurs again.
C19_VersionIsWholeRest ==
  (pc = "done" /\ ReadFileOk(fsys, RequirementsTxt))
  => NameVersions(ret.components) = PairsOf(PyPIFileLines, TRUE)

\* C19 amended: the version is the trimmed text between the first
\* occurrence of the picked operator and its next occurrence, or the whole
\* trimmed text after the first occurrence when there is no other.
C19_VersionUpToNextOperator ==
  (pc = "done" /\ ReadFileOk(fsys, RequirementsTxt))
  => /\ ~ret.err
     /\ NameVersions(ret.components) = PairsOf(PyPIFileLines, FALSE)

\* the line a==1==2 has been parsed into the record a, 1
C19_Witness ==
  /\ pc = "done"
  /\ ReadFileOk(fsys, RequirementsTxt)
  /\ PyPIFileLines = << <<"a","=","=","1","=","=","2">> >>
  /\ NameVersions(ret.components) = << <<  <<"a">>, <<"1">>  >> >>

----------------------------------------------------------------------------
(* Specification SpecGo: GoAnalyzer.Analyze on one go.mod.                 *)

GoMod == <<"go.mod">>

GoAlphabet == {"a", "1", "/", " ", "\t", "\n"}

\* the module lines of the require block of the repository's test fixture
GoModuleLines ==
  {<<"\t","g","i","t","h","u","b",".","c","o","m","/","g","i","n","-","g","o","n","i","c","/","g","i","n"," ","v","1",".","9",".","0">>,
   <<"\t","g","i","t","h","u","b",".","c","o","m","/","g","o","-","r","e","d","i","s","/","r","e","d","i","s","/","v","8"," ","v","8",".","1","1",".","0">>}

\* a go.mod in the layout of the test fixture, requiring the given modules
GoModFile(requires) ==
  JoinLines(<<<<"m","o","d","u","l","e"," ","g","i","t","h","u","b",".","c","o","m","/","h","a","l","l","u","c","i","n","a","u","t","/","t","e","s","t">>,
              <<>>,
              <<"g","o"," ","1",".","2","1">>,
              <<>>,
              <<"r","e","q","u","i","r","e"," ","(">>>>
            \o requires
            \o << <<")">> >>)

GoModFixtures ==
  {GoModFile(rs) : rs \in {<<>>} \cup SeqsUpTo(GoModuleLines, MaxLines)}

GoInputs(maxLen) ==
  {File(d) : d \in StringsUpTo(GoAlphabet, maxLen)}
    \cup {File(d) : d \in GoModFixtures}
    \cup {UnreadableFile}

InitGo ==
  /\ fsys \in {(GoMod :> f) : f \in GoInputs(MaxLineLen)}
  /\ pc = "start"
  /\ ret = NoResult
  /\ NoCall

CallGoAnalyze ==
  /\ pc = "start"
  /\ ret' = GoAnalyze(fsys, GoMod)
  /\ pc' = "done"
  /\ UNCHANGED <<fsys, args, sbom, calls>>

NextGo == CallGoAnalyze

SpecGo == InitGo /\ [][NextGo]_vars

----------------------------------------------------------------------------
(* Claims about GoAnalyzer.Analyze, checked under SpecGo. *)

\* C7: on a go.mod made of a module line, a go directive and a parenthesised
\* require block listing k modules, GoAnalyzer.Analyze returns exactly k
\* components, one per listed module, each with supplier go.
C7_OneComponentPerRequiredModule ==
  \A rs \in {<<>>} \cup SeqsUpTo(GoModuleLines, MaxLines) :
    (/\ pc = "done"
     /\ ReadFileOk(fsys, GoMod)
     /\ fsys[GoMod].data = GoModFile(rs))
    => /\ ~ret.err
       /\ Len(ret.components) = Len(rs)
       /\ \A i \in 1..Len(ret.components) :
            ret.components[i].Supplier = <<"g","o">>

\* the lines of the go.mod that was read
GoFileLines == Split(fsys[GoMod].data, <<"\n">>)

\* a line with at least two whitespace-separated fields
HasTwoFields(line) == Len(Fields(line)) >= 2

\* a line holding a space character
HasSpaceChar(line) == \E i \in 1..Len(line) : line[i] = " "

\* the (name, version) pairs of the lines with at least two fields, one per
\* line: the last path element of the first field and the second field; with
\* spaceOnly only the lines holding a space after trimming count
RECURSIVE FieldPairs(_, _)
FieldPairs(lines, spaceOnly) ==
  IF lines = <<>> THEN <<>>
  ELSE LET line == Head(lines)
       IN  (IF HasTwoFields(line)
               /\ (spaceOnly => HasSpaceChar(TrimSpace(line)))
            THEN << <<filepathBase(Fields(line)[1]), Fields(line)[2]>> >>
            ELSE <<>>)
           \o FieldPairs(Tail(lines), spaceOnly)

\* C20 as stated: whitespace of any kind between tokens makes a line a
\* candidate, so every go.mod line with at least two whitespace-separated
\* fields produces exactly one record and every other line produces none.
C20_TwoFieldsOneRecord ==
  (pc = "done" /\ ReadFileOk(fsys, GoMod))
  => NameVersions(ret.components) = FieldPairs(GoFileLines, FALSE)

\* C20 amended: only a space character makes a line a candidate; a line
\* with at least two fields that holds a space after trimming produces
\* exactly one record, and every other line, among them the lines whose
\* fields are separated by tabs alone, produces none.
C20_SpaceAndTwoFieldsOneRecord ==
  (pc = "done" /\ ReadFileOk(fsys, GoMod))
  => /\ ~ret.err
     /\ NameVersions(ret.components) = FieldPairs(GoFileLines, TRUE)

\* a go.mod whose only line has two fields separated by a tab has been
\* parsed and gave no record
C20_Witness ==
  /\ pc = "done"
  /\ ReadFileOk(fsys, GoMod)
  /\ GoFileLines = << <<"a","\t","1">> >>
  /\ HasTwoFields(GoFileLines[1])
  /\ ~ret.err
  /\ ret.components = <<>>

\* the text of s after its last slash, the whole of s when it has none
AfterLastSlash(s) ==
  IF \A i \in 1..Len(s) : s[i] # "/" THEN s
  ELSE LET k == CHOOSE i \in 1..Len(s) :
                  s[i] = "/" /\ \A j \in (i + 1)..Len(s) : s[j] # "/"
       IN  SubSeq(s, k + 1, Len(s))

\* s without the slashes at its end
RECURSIVE WithoutTrailingSlashes(_)
WithoutTrailingSlashes(s) ==
  IF s # <<>> /\ s[Len(s)] = "/"
  THEN WithoutTrailingSlashes(SubSeq(s, 1, Len(s) - 1))
  ELSE s

\* the last element of a non-empty field: the text after the last slash once
\* the slashes at its end are removed, and / for a field made of slashes
LastElement(s) ==
  IF WithoutTrailingSlashes(s) = <<>> THEN <<"/">>
  ELSE AfterLastSlash(WithoutTrailingSlashes(s))

\* the candidate lines with at least two fields
GoCandidates(lines) ==
  SelectSeq(lines, LAMBDA l : HasTwoFields(l) /\ HasSpaceChar(TrimSpace(l)))

\* C21 as stated: the record of every candidate line with at least two
\* fields has as name the text after the last slash of the first field (the
\* whole field when it has no slash), also for a first field that ends in a
\* slash, and as version the second field.
C21_NameIsTextAfterLastSlash ==
  (pc = "done" /\ ReadFileOk(fsys, GoMod))
  => LET cs == GoCandidates(GoFileLines)
     IN  /\ Len(ret.components) = Len(cs)
         /\ \A i \in 1..Len(cs) :
              /\ ret.components[i].Name = AfterLastSlash(Fields(cs[i])[1])
              /\ ret.components[i].Version = Fields(cs[i])[2]

\* C21 amended: the name is the last element of the first field, taken
\* after the slashes at the end of the field are removed (and / when the
\* field holds nothing but slashes); the version is the second field.
C21_NameIsLastElement ==
  (pc = "done" /\ ReadFileOk(fsys, GoMod))
  => LET cs == GoCandidates(GoFileLines)
     IN  /\ Len(ret.components) = Len(cs)
         /\ \A i \in 1..Len(cs) :
              /\ ret.components[i].Name = LastElement(Fields(cs[i])[1])
              /\ ret.components[i].Version = Fields(cs[i])[2]

\* the line "a/ 1", whose first field ends in a slash, has been parsed into
\* the record a, 1
C21_Witness ==
  /\ pc = "done"
  /\ ReadFileOk(fsys, GoMod)
  /\ GoFileLines = << <<"a","/"," ","1">> >>
  /\ Len(ret.components) = 1
  /\ ret.components[1].Name = <<"a">>
  /\ ret.components[1].Version = <<"1">>

----------------------------------------------------------------------------
(* Specification SpecCargo: CargoAnalyzer.Analyze on one Cargo.toml.       *)

CargoToml == <<"Cargo.toml">>

\* name = "v"
BareEntry(name, v) == name \o <<" ","="," ","\"">> \o v \o <<"\"">>

\* name = { version = "v" }
InlineEntry(name, v) ==
  name \o <<" ","="," ","{"," ","v","e","r","s","i","o","n"," ","="," ","\"">> \o v \o <<"\""," ","}">>

\* the entry lines of the test fixture, with the key and the quoted content
\* each is written from
CargoEntries ==
  {[line |-> BareEntry(<<"t","o","k","i","o">>, <<"1",".","2","8",".","0">>), name |-> <<"t","o","k","i","o">>, version |-> <<"1",".","2","8",".","0">>],
   [line |-> BareEntry(<<"n","a","m","e">>, <<"t","e","s","t","-","p","r","o","j","e","c","t">>), name |-> <<"n","a","m","e">>, version |-> <<"t","e","s","t","-","p","r","o","j","e","c","t">>],
   [line |-> InlineEntry(<<"s","e","r","d","e">>, <<"1",".","0",".","0">>), name |-> <<"s","e","r","d","e">>, version |-> <<"1",".","0",".","0">>]}

CargoHeaders == {<<"[","p","a","c","k","a","g","e","]">>, <<"[","d","e","p","e","n","d","e","n","c","i","e","s","]">>}

CargoFileLines == {e.line : e \in CargoEntries} \cup CargoHeaders \cup {<<>>}

\* other headers and entry shapes: a [dependencies] header followed by a
\* comment, other sections, inline tables with three, one and no double
\* quote, a key alone, a comment holding an entry, a value with a doubled
\* quote and a value holding a second =
CargoOtherLines ==
  {<<"[","d","e","p","e","n","d","e","n","c","i","e","s","]">>,
   <<"[","d","e","p","e","n","d","e","n","c","i","e","s","]"," ","#"," ","x">>,
   <<"[","d","e","v","-","d","e","p","e","n","d","e","n","c","i","e","s","]">>,
   <<"[","d","e","p","e","n","d","e","n","c","i","e","s",".","f","o","o","]">>,
   <<"a","=","{","\"","1","\"",",","\"","2","\"","}">>,
   <<"a","=","{","\"","1","}">>,
   <<"a","=","{","}">>,
   <<"a">>,
   <<"#","b","=","\"","1","\"">>,
   <<"a"," ","="," ","\"","\"","1","\"">>,
   <<"a","=","1","=","2">>}

CargoInputs(maxLines) ==
  {File(JoinLines(ls)) : ls \in SeqsUpTo(CargoFileLines, maxLines)}
    \cup {UnreadableFile}

CargoOtherInputs(maxLines) ==
  {File(JoinLines(ls)) : ls \in SeqsUpTo(CargoOtherLines, maxLines)}

InitCargo ==
  /\ \/ fsys \in {(CargoToml :> f) : f \in CargoInputs(MaxCargoLines)}
     \/ fsys \in {(CargoToml :> f) : f \in CargoOtherInputs(MaxLines)}
  /\ pc = "start"
  /\ ret = NoResult
  /\ NoCall

CallCargoAnalyze ==
  /\ pc = "start"
  /\ ret' = CargoAnalyze(fsys, CargoToml)
  /\ pc' = "done"
  /\ UNCHANGED <<fsys, args, sbom, calls>>

NextCargo == CallCargoAnalyze

SpecCargo == InitCargo /\ [][NextCargo]_vars

----------------------------------------------------------------------------
(* Claims about CargoAnalyzer.Analyze, checked under SpecCargo. *)

CargoData == fsys[CargoToml].data

CargoDataLines == Split(CargoData, <<"\n">>)

IsCargoEntryLine(line) == \E e \in CargoEntries : e.line = line

EntryOf(line) == CHOOSE e \in CargoEntries : e.line = line

\* the section a line lies in: the last header among the lines before it
SectionOf(lines, i) ==
  LET hs == {j \in 1..(i - 1) : lines[j] \in CargoHeaders}
  IN  IF hs = {} THEN <<>> ELSE lines[SetMax(hs)]

\* the entries of the [dependencies] sections, in file order
RECURSIVE C8_Expected(_, _)
C8_Expected(lines, i) ==
  IF i > Len(lines) THEN <<>>
  ELSE (IF /\ IsCargoEntryLine(lines[i])
           /\ SectionOf(lines, i) = <<"[","d","e","p","e","n","d","e","n","c","i","e","s","]">>
        THEN << <<EntryOf(lines[i]).name, EntryOf(lines[i]).version>> >>
        ELSE <<>>)
       \o C8_Expected(lines, i + 1)

\* C8: for a Cargo.toml whose [dependencies] section holds bare-string and
\* inline-table entries, CargoAnalyzer.Analyze returns one record per entry,
\* in file order, whose name is the key and whose version is the quoted
\* content; entries of other sections such as [package] produce no record.
C8_DependenciesEntries ==
  (/\ pc = "done"
   /\ ReadFileOk(fsys, CargoToml)
   /\ LET lines == CargoDataLines
      IN  \A i \in 1..Len(lines) : lines[i] \in CargoFileLines)
  => /\ ~ret.err
     /\ NameVersions(ret.components) = C8_Expected(CargoDataLines, 1)

\* the test fixture's layout has been parsed: a [package] entry, then an
\* inline-table and a bare-string entry in [dependencies]
C8_Witness ==
  /\ pc = "done"
  /\ \E p, s, k \in CargoEntries :
       /\ p.name = <<"n","a","m","e">>
       /\ s.name = <<"s","e","r","d","e">>
       /\ k.name = <<"t","o","k","i","o">>
       /\ CargoDataLines = << <<"[","p","a","c","k","a","g","e","]">>, p.line,
                              <<"[","d","e","p","e","n","d","e","n","c","i","e","s","]">>,
                              s.line, k.line >>
  /\ NameVersions(ret.components) =
       << << <<"s","e","r","d","e">>, <<"1",".","0",".","0">> >>,
          << <<"t","o","k","i","o">>, <<"1",".","2","8",".","0">> >> >>

DependenciesHeader == <<"[","d","e","p","e","n","d","e","n","c","i","e","s","]">>

\* the parser's states while it scans the lines: the one before the first
\* line, then the one after each line
RECURSIVE CargoScan(_, _)
CargoScan(st, lines) ==
  IF lines = <<>> THEN <<st>>
  ELSE <<st>> \o CargoScan(CargoLine(st, Head(lines)), Tail(lines))

\* a line beginning with [ once trimmed
IsHeaderLine(line) == HasPrefix(TrimSpace(line), <<"[">>)

\* the trimmed text of each line that is a header, <<>> for the others
RECURSIVE HeadersOf(_)
HeadersOf(lines) ==
  IF lines = <<>> THEN <<>>
  ELSE <<IF IsHeaderLine(Head(lines)) THEN TrimSpace(Head(lines)) ELSE <<>>>>
       \o HeadersOf(Tail(lines))

\* the most recent of the headers hs among the first k lines, <<>> when
\* there is none
LastHeader(hs, k) ==
  IF \A j \in 1..k : hs[j] = <<>> THEN <<>>
  ELSE hs[CHOOSE j \in 1..k :
            hs[j] # <<>> /\ \A i \in (j + 1)..k : hs[i] = <<>>]

\* in the scan sc of lines with headers hs, records come only from lines
\* read while the flag is true, and never from a header line
RecordsOnlyInsideDependencies(hs, sc) ==
  \A k \in 1..Len(hs) :
    Len(sc[k + 1].components) # Len(sc[k].components)
      => /\ sc[k].inDependencies
         /\ hs[k] = <<>>

\* C22 as stated: while a Cargo.toml is scanned, the inside-dependencies
\* flag is true exactly when the most recent line beginning with [ is equal
\* to [dependencies], and so false after a header that starts with
\* [dependencies] and goes on with other text; records come only from lines
\* read while the flag is true, and never from a header line.
C22_FlagTrueAfterExactHeader ==
  (pc = "done" /\ ReadFileOk(fsys, CargoToml))
  => LET lines == CargoDataLines
         sc    == CargoScan(CargoStart, lines)
         hs    == HeadersOf(lines)
     IN  /\ \A k \in 0..Len(lines) :
              sc[k + 1].inDependencies
                <=> LastHeader(hs, k) = DependenciesHeader
         /\ RecordsOnlyInsideDependencies(hs, sc)

\* C22 amended: the flag is true exactly when the most recent line
\* beginning with [ begins with [dependencies], whatever follows on the
\* line; it is false before any header and after any other header, such as
\* [dev-dependencies] or [dependencies.foo].
C22_FlagTrueAfterHeaderPrefix ==
  (pc = "done" /\ ReadFileOk(fsys, CargoToml))
  => LET lines == CargoDataLines
         sc    == CargoScan(CargoStart, lines)
         hs    == HeadersOf(lines)
     IN  /\ \A k \in 0..Len(lines) :
              sc[k + 1].inDependencies
                <=> HasPrefix(LastHeader(hs, k), DependenciesHeader)
         /\ RecordsOnlyInsideDependencies(hs, sc)
         /\ ret.components = sc[Len(sc)].components

\* a file has been parsed in which an entry follows the header
\* [dependencies] # x and another header, [dev-dependencies], ends the
\* section: the entry gave a record
C22_Witness ==
  /\ pc = "done"
  /\ ReadFileOk(fsys, CargoToml)
  /\ CargoDataLines =
       << <<"[","d","e","p","e","n","d","e","n","c","i","e","s","]"," ","#"," ","x">>,
          <<"a","=","1","=","2">>,
          <<"[","d","e","v","-","d","e","p","e","n","d","e","n","c","i","e","s","]">> >>
  /\ CargoScan(CargoStart, CargoDataLines)[3].inDependencies
  /\ ~CargoScan(CargoStart, CargoDataLines)[4].inDependencies
  /\ NameVersions(ret.components) = << << <<"a">>, <<"1","=","2">> >> >>

\* v without the double quotes at its two ends
RECURSIVE StripQuotes(_)
StripQuotes(v) ==
  IF v # <<>> /\ Head(v) = "\"" THEN StripQuotes(Tail(v))
  ELSE IF v # <<>> /\ v[Len(v)] = "\"" THEN StripQuotes(SubSeq(v, 1, Len(v) - 1))
  ELSE v

\* the positions of the double quotes of v, in order
QuotesOf(v) ==
  SelectSeq([i \in 1..Len(v) |-> i], LAMBDA i : v[i] = "\"")

\* the (name, version) pairs an entry line is to give
EntryPairs(line) ==
  IF ~Contains(line, <<"=">>) THEN <<>>
  ELSE LET eq    == CHOOSE i \in 1..Len(line) :
                      line[i] = "=" /\ \A j \in 1..(i - 1) : line[j] # "="
           name  == TrimSpace(SubSeq(line, 1, eq - 1))
           value == TrimSpace(SubSeq(line, eq + 1, Len(line)))
           qs    == QuotesOf(value)
       IN  IF value # <<>> /\ Head(value) = "{"
           THEN IF Len(qs) < 2 THEN <<>>
                ELSE << <<name, SubSeq(value, qs[1] + 1, qs[2] - 1)>> >>
           ELSE << <<name, StripQuotes(value)>> >>

\* a line the parser splits: read inside [dependencies], not blank, not a
\* comment and not a header
IsSplitLine(lines, sc, k) ==
  LET line == TrimSpace(lines[k])
  IN  /\ sc[k].inDependencies
      /\ line # <<>>
      /\ Head(line) \notin {"#", "["}

\* C23: a line inside [dependencies] that splits on its first = into name
\* and value gives, when the value begins with {, one record whose version
\* is the text between the first and the second double quote of the value,
\* and none when the value has fewer than two double quotes; otherwise it
\* gives exactly one record whose version is the value without the double
\* quotes at its ends; a line without = gives no record and no error.
C23_EntryVersion ==
  (pc = "done" /\ ReadFileOk(fsys, CargoToml))
  => LET lines == CargoDataLines
         sc    == CargoScan(CargoStart, lines)
     IN  /\ ~ret.err
         /\ ret.components = sc[Len(sc)].components
         /\ \A k \in 1..Len(lines) :
              IsSplitLine(lines, sc, k)
                => NameVersions(sc[k + 1].components) =
                     NameVersions(sc[k].components)
                       \o EntryPairs(TrimSpace(lines[k]))

\* an inline table with three double quotes, a key alone and an inline
\* table with one double quote have been parsed inside [dependencies]: only
\* the first gave a record, with the text between its first two quotes
C23_Witness ==
  /\ pc = "done"
  /\ ReadFileOk(fsys, CargoToml)
  /\ \E l2 \in {<<"a">>, <<"a","=","{","\"","1","}">>} :
       CargoDataLines = << DependenciesHeader,
                           <<"a","=","{","\"","1","\"",",","\"","2","\"","}">>,
                           l2 >>
  /\ ~ret.err
  /\ NameVersions(ret.components) = << << <<"a">>, <<"1">> >> >>

----------------------------------------------------------------------------
(* Specification SpecMaven: MavenAnalyzer.Analyze on one pom.xml.          *)

PomXml == <<"pom.xml">>

\* the dependencies of the test fixture: group, artifactId and version
MavenDeps ==
  {[group |-> <<"o","r","g",".","s","p","r","i","n","g","f","r","a","m","e","w","o","r","k",".","b","o","o","t">>, artifactId |-> <<"s","p","r","i","n","g","-","b","o","o","t","-","s","t","a","r","t","e","r","-","w","e","b">>, version |-> <<"3",".","0",".","0">>],
   [group |-> <<"c","o","m",".","g","o","o","g","l","e",".","g","u","a","v","a">>, artifactId |-> <<"g","u","a","v","a">>, version |-> <<"3","1",".","1","-","j","r","e">>]}

Element(tag, text) ==
  <<"<">> \o tag \o <<">">> \o text \o <<"<","/">> \o tag \o <<">">>

Indent(n, s) == [i \in 1..n |-> " "] \o s

\* a <dependency> block with one tag per line, as in the test fixture
BlockPerLine(d) ==
  <<Indent(4, <<"<","d","e","p","e","n","d","e","n","c","y",">">>),
    Indent(6, Element(<<"g","r","o","u","p","I","d">>, d.group)),
    Indent(6, Element(<<"a","r","t","i","f","a","c","t","I","d">>, d.artifactId)),
    Indent(6, Element(<<"v","e","r","s","i","o","n">>, d.version)),
    Indent(4, <<"<","/","d","e","p","e","n","d","e","n","c","y",">">>)>>

\* a <dependency> block with artifactId and version on the same line
BlockSameLine(d) ==
  <<Indent(4, <<"<","d","e","p","e","n","d","e","n","c","y",">">>),
    Indent(6, Element(<<"g","r","o","u","p","I","d">>, d.group)),
    Indent(6, Element(<<"a","r","t","i","f","a","c","t","I","d">>, d.artifactId)
                \o Element(<<"v","e","r","s","i","o","n">>, d.version)),
    Indent(4, <<"<","/","d","e","p","e","n","d","e","n","c","y",">">>)>>

\* a block with version before artifactId on the same line
BlockVersionFirst(d) ==
  <<Indent(4, <<"<","d","e","p","e","n","d","e","n","c","y",">">>),
    Indent(6, Element(<<"v","e","r","s","i","o","n">>, d.version) \o <<" ">>
                \o Element(<<"a","r","t","i","f","a","c","t","I","d">>, d.artifactId)),
    Indent(4, <<"<","/","d","e","p","e","n","d","e","n","c","y",">">>)>>

Layouts == {"perLine", "sameLine", "versionFirst"}

\* a block is a dependency written in a layout
MavenBlocks == [dep : MavenDeps, layout : Layouts]

BlockLines(b) ==
  IF b.layout = "perLine" THEN BlockPerLine(b.dep)
  ELSE IF b.layout = "sameLine" THEN BlockSameLine(b.dep)
  ELSE BlockVersionFirst(b.dep)

RECURSIVE BlocksLines(_)
BlocksLines(bs) ==
  IF bs = <<>> THEN <<>> ELSE BlockLines(Head(bs)) \o BlocksLines(Tail(bs))

\* a pom.xml in the layout of the test fixture; the project's own
\* coordinates stand before <dependencies> when own is TRUE
PomFile(own, bs) ==
  JoinLines(<<<<"<","?","x","m","l"," ","v","e","r","s","i","o","n","=","\"","1",".","0","\""," ","e","n","c","o","d","i","n","g","=","\"","U","T","F","-","8","\"","?",">">>, <<"<","p","r","o","j","e","c","t",">">>>>
            \o (IF own
                THEN <<Indent(2, Element(<<"a","r","t","i","f","a","c","t","I","d">>, <<"d","e","m","o">>)
                                   \o Element(<<"v","e","r","s","i","o","n">>, <<"0",".","0",".","1">>))>>
                ELSE <<>>)
            \o <<Indent(2, <<"<","d","e","p","e","n","d","e","n","c","i","e","s",">">>)>>
            \o BlocksLines(bs)
            \o <<Indent(2, <<"<","/","d","e","p","e","n","d","e","n","c","i","e","s",">">>), <<"<","/","p","r","o","j","e","c","t",">">>>>)

BlockSeqs == {<<>>} \cup SeqsUpTo(MavenBlocks, MaxBlocks)

MavenInputs(blockSeqs) ==
  {File(PomFile(own, bs)) : own \in BOOLEAN, bs \in blockSeqs}
    \cup {UnreadableFile}

\* other lines of a pom.xml: the tags that open and close the dependencies
\* element, an empty dependencies element on one line, and an artifactId
\* with its version on one line
MavenOtherLines ==
  {<<"<","d","e","p","e","n","d","e","n","c","i","e","s",">">>,
   <<"<","/","d","e","p","e","n","d","e","n","c","i","e","s",">">>,
   <<"<","d","e","p","e","n","d","e","n","c","i","e","s",">","<","/","d","e","p","e","n","d","e","n","c","i","e","s",">">>,
   Element(<<"a","r","t","i","f","a","c","t","I","d">>, <<"g","u","a","v","a">>)
     \o Element(<<"v","e","r","s","i","o","n">>, <<"3","1",".","1","-","j","r","e">>),
   <<"<","p","r","o","j","e","c","t",">">>}

MavenOtherInputs(maxLines) ==
  {File(JoinLines(ls)) : ls \in SeqsUpTo(MavenOtherLines, maxLines)}

InitMaven ==
  /\ \/ fsys \in {(PomXml :> f) : f \in MavenInputs(BlockSeqs)}
     \/ fsys \in {(PomXml :> f) : f \in MavenOtherInputs(MaxLines)}
  /\ pc = "start"
  /\ ret = NoResult
  /\ NoCall

CallMavenAnalyze ==
  /\ pc = "start"
  /\ ret' = MavenAnalyze(fsys, PomXml)
  /\ pc' = "done"
  /\ UNCHANGED <<fsys, args, sbom, calls>>

NextMaven == CallMavenAnalyze

SpecMaven == InitMaven /\ [][NextMaven]_vars

----------------------------------------------------------------------------
(* Claims about MavenAnalyzer.Analyze, checked under SpecMaven. *)

SameLine(b) == b.layout \in {"sameLine", "versionFirst"}

\* one (artifactId, version) per block written on one line, in file order
RECURSIVE C9_Expected(_)
C9_Expected(bs) ==
  IF bs = <<>> THEN <<>>
  ELSE (IF SameLine(Head(bs))
        THEN << <<Head(bs).dep.artifactId, Head(bs).dep.version>> >>
        ELSE <<>>)
       \o C9_Expected(Tail(bs))

C10_OneComponentPerBlock ==
  \A own \in BOOLEAN, bs \in BlockSeqs :
    (/\ pc = "done"
     /\ ReadFileOk(fsys, PomXml)
     /\ fsys[PomXml].data = PomFile(own, bs)
     /\ \A i \in 1..Len(bs) : bs[i].layout = "perLine")
    => /\ ~ret.err
       /\ Len(ret.components) = Len(bs)
       /\ \A i \in 1..Len(bs) : ret.components[i].Name = bs[i].dep.artifactId

\* the parser's states while it scans the lines of a pom.xml: the one
\* before the first line, then the one after each line
RECURSIVE MavenScan(_, _)
MavenScan(st, lines) ==
  IF lines = <<>> THEN <<st>>
  ELSE <<st>> \o MavenScan(MavenLine(st, Head(lines)), Tail(lines))

OpenTag == <<"<","d","e","p","e","n","d","e","n","c","i","e","s",">">>

CloseTag == <<"<","/","d","e","p","e","n","d","e","n","c","i","e","s",">">>

\* line k is read inside a region: a line before it contains <dependencies>
\* and neither that line nor a line between the two contains </dependencies>
InsideRegion(lines, k) ==
  \E j \in 1..(k - 1) :
    /\ Contains(lines[j], OpenTag)
    /\ \A i \in j..(k - 1) : ~Contains(lines[i], CloseTag)

\* C24: the Maven parser emits a record only from a line read inside a
\* <dependencies>...</dependencies> region: once a line containing
\* </dependencies> has been processed no later line gives a record until a
\* later line containing <dependencies> is processed, and no line before
\* the first <dependencies> gives a record.
C24_RecordsOnlyInsideRegion ==
  (pc = "done" /\ ReadFileOk(fsys, PomXml))
  => LET lines == Split(fsys[PomXml].data, <<"\n">>)
         sc    == MavenScan(MavenStart, lines)
     IN  /\ ret.components = sc[Len(sc)].components
         /\ \A k \in 1..Len(lines) :
              Len(sc[k + 1].components) # Len(sc[k].components)
                => InsideRegion(lines, k)

----------------------------------------------------------------------------
(* Specification SpecNPM: NPMAnalyzer.Analyze on one package.json.         *)

PackageJson == <<"package.json">>

\* package names and version ranges of the test fixture
NPMPackages == {<<"e","x","p","r","e","s","s">>, <<"l","o","d","a","s","h">>, <<"j","e","s","t">>}

NPMVersions == {<<"^","4",".","1","8",".","0">>, <<"~","4",".","1","7",".","0">>}

\* the values a dependency map may hold for a name
NPMEntryValues == {JString(v) : v \in NPMVersions} \cup {JNumber, JNull}

\* the dependency maps of at most maxDeps entries
NPMMaps(maxDeps) ==
  UNION {[ks -> NPMEntryValues] :
           ks \in {s \in SUBSET NPMPackages : Cardinality(s) <= maxDeps}}

\* what may stand for "dependencies" or "devDependencies": an object, null,
\* or a value of another type
NPMMembers(maxDeps) ==
  {JObject(m) : m \in NPMMaps(maxDeps)} \cup {JNull, JNumber}

NPMHeader ==
  [k \in {"name", "version"} |->
     IF k = "name" THEN JString(<<"t","e","s","t","-","p","r","o","j","e","c","t">>) ELSE JString(<<"1",".","0",".","0">>)]

\* the package.json documents: both maps, only "dependencies", or neither
NPMDocs(maxDeps) ==
  {JObject(NPMHeader @@ [k \in {"dependencies", "devDependencies"} |->
                            IF k = "dependencies" THEN d ELSE v]) :
     d \in NPMMembers(maxDeps), v \in NPMMembers(maxDeps)}
    \cup {JObject(NPMHeader @@ ("dependencies" :> d)) :
             d \in NPMMembers(maxDeps)}
    \cup {JObject(NPMHeader), Malformed}

NPMInputs(maxDeps) ==
  {File(d) : d \in NPMDocs(maxDeps)} \cup {UnreadableFile}

InitNPM ==
  /\ fsys \in {(PackageJson :> f) : f \in NPMInputs(MaxDeps)}
  /\ pc = "start"
  /\ ret = NoResult
  /\ NoCall

CallNPMAnalyze ==
  /\ pc = "start"
  /\ ret' \in NPMAnalyze(fsys, PackageJson)
  /\ pc' = "done"
  /\ UNCHANGED <<fsys, args, sbom, calls>>

NextNPM == CallNPMAnalyze

SpecNPM == InitNPM /\ [][NextNPM]_vars

----------------------------------------------------------------------------
(* Claims about NPMAnalyzer.Analyze, checked under SpecNPM. *)

NPMDoc == fsys[PackageJson].data

\* the entries of a member, when it is an object of name -> version strings
IsVersionMap(doc, field) ==
  /\ field \in DOMAIN doc.members
  /\ doc.members[field].t = "object"
  /\ \A k \in DOMAIN doc.members[field].members :
       doc.members[field].members[k].t = "string"

\* a valid package.json: each of the two maps is absent or maps names to
\* version strings
IsValidPackageJson(doc) ==
  /\ doc.t = "object"
  /\ \A f \in {"dependencies", "devDependencies"} :
       f \in DOMAIN doc.members => IsVersionMap(doc, f)

EntriesOf(doc, field) ==
  IF field \in DOMAIN doc.members
  THEN {<<k, doc.members[field].members[k].s>> :
          k \in DOMAIN doc.members[field].members}
  ELSE {}

IsDev(c) == c.Description = <<"d","e","v","e","l","o","p","m","e","n","t"," ","d","e","p","e","n","d","e","n","c","y">>

\* C4: for every valid package.json with N entries in "dependencies" and M in
\* "devDependencies", NPMAnalyzer.Analyze returns exactly N+M records (a name
\* in both maps yields two), exactly the M from devDependencies are marked as
\* development dependencies, every record has supplier npm and PURL
\* "pkg:npm/" + name + "@" + version.
C4_NPMRecords ==
  (/\ pc = "done"
   /\ ReadFileOk(fsys, PackageJson)
   /\ IsValidPackageJson(NPMDoc))
  => LET deps == EntriesOf(NPMDoc, "dependencies")
         dev  == EntriesOf(NPMDoc, "devDependencies")
         cs   == ret.components
         plain  == {i \in 1..Len(cs) : ~IsDev(cs[i])}
         marked == {i \in 1..Len(cs) : IsDev(cs[i])}
     IN  /\ ~ret.err
         /\ Len(cs) = Cardinality(deps) + Cardinality(dev)
         /\ Cardinality(marked) = Cardinality(dev)
         /\ {<<cs[i].Name, cs[i].Version>> : i \in plain} = deps
         /\ {<<cs[i].Name, cs[i].Version>> : i \in marked} = dev
         /\ \A i \in 1..Len(cs) :
              /\ cs[i].Supplier = <<"n","p","m">>
              /\ cs[i].PURL = <<"p","k","g",":","n","p","m","/">> \o cs[i].Name \o <<"@">> \o cs[i].Version

\* a package.json with two dependencies and a development dependency whose
\* name is also a dependency has been parsed into three records
C4_Witness ==
  /\ pc = "done"
  /\ ReadFileOk(fsys, PackageJson)
  /\ IsValidPackageJson(NPMDoc)
  /\ Cardinality(EntriesOf(NPMDoc, "dependencies")) = 2
  /\ Cardinality(EntriesOf(NPMDoc, "devDependencies")) = 1
  /\ \E e \in EntriesOf(NPMDoc, "devDependencies") :
       \E d \in EntriesOf(NPMDoc, "dependencies") : d[1] = e[1]
  /\ Len(ret.components) = 3
  /\ IsDev(ret.components[3])

----------------------------------------------------------------------------
(* Specification Spec: a project tree is laid out as the tests lay theirs  *)
(* out (os.MkdirAll, os.WriteFile), then AnalyzeDir is called on its root. *)

Root == <<"proj">>

DirNames == {"src", "lib", "node_modules", "vendor", ".git", "dist", "build"}

\* a package.json with one dependency, as in TestProjectAnalyzer_AnalyzeDir
PkgOne ==
  JObject(NPMHeader @@ ("dependencies" :>
            JObject(<<"e","x","p","r","e","s","s">> :> JString(<<"^","4",".","1","8",".","0">>))))

\* a package.json with two dependencies and a development dependency
PkgThree ==
  JObject(NPMHeader
          @@ ("dependencies" :>
                JObject(<<"e","x","p","r","e","s","s">> :> JString(<<"^","4",".","1","8",".","0">>)
                        @@ <<"l","o","d","a","s","h">> :> JString(<<"~","4",".","1","7",".","0">>)))
          @@ ("devDependencies" :> JObject(<<"j","e","s","t">> :> JString(<<"^","2","9",".","0",".","0">>))))

\* a package.json whose dependency map holds a non-string value
PkgBadValue ==
  JObject(NPMHeader @@ ("dependencies" :> JObject(<<"e","x","p","r","e","s","s">> :> JNumber)))

\* the files a test may write under a name
FilesNamed(name) ==
  CASE name = "package.json" ->
         {File(PkgOne), File(PkgThree), File(Malformed), File(PkgBadValue),
          UnreadableFile}
    [] name = "requirements.txt" -> {File(<<"f","l","a","s","k","=","=","2",".","2",".","0">>)}
    [] name = "go.mod" -> {File(<<"g","i","t","h","u","b",".","c","o","m","/","g","i","n","-","g","o","n","i","c","/","g","i","n"," ","v","1",".","9",".","0">>)}
    [] name = "Cargo.toml" ->
         {File(JoinLines(<<<<"[","d","e","p","e","n","d","e","n","c","i","e","s","]">>, BareEntry(<<"t","o","k","i","o">>, <<"1",".","2","8",".","0">>)>>))}
    [] name = "pom.xml" ->
         {File(JoinLines(<<<<"<","d","e","p","e","n","d","e","n","c","i","e","s",">">>,
                           Element(<<"a","r","t","i","f","a","c","t","I","d">>, <<"g","u","a","v","a">>)
                             \o Element(<<"v","e","r","s","i","o","n">>, <<"3","1",".","1","-","j","r","e">>),
                           <<"<","/","d","e","p","e","n","d","e","n","c","i","e","s",">">>>>))}

FileNames == {ManifestName(analyzers[i]) : i \in 1..Len(analyzers)}

\* the entries a test may create under a name
EntriesNamed(name) ==
  IF name \in FileNames THEN FilesNamed(name)
  ELSE IF name = "lib" THEN {Dir("r"), Dir("none")}
  ELSE {Dir("rx")}

NoFiles == [p \in {} |-> Dir("rx")]

Init ==
  /\ fsys \in {NoFiles} \cup {(Root :> Dir(m)) : m \in {"rx", "none"}}
  /\ pc = "setup"
  /\ ret = NoResult
  /\ NoCall

\* os.MkdirAll / os.WriteFile: one more entry in an existing directory
CreateEntry ==
  /\ pc = "setup"
  /\ Cardinality(DOMAIN fsys) <= MaxEntries
  /\ \E dir \in DOMAIN fsys, name \in DirNames \cup FileNames :
       /\ IsDir(fsys, dir)
       /\ Len(dir) <= MaxDepth
       /\ Append(dir, name) \notin DOMAIN fsys
       /\ \E e \in EntriesNamed(name) :
            fsys' = fsys @@ (Append(dir, name) :> e)
  /\ UNCHANGED <<pc, ret, args, sbom, calls>>

CallAnalyzeDir ==
  /\ pc = "setup"
  /\ ret' \in AnalyzeDir(fsys, Root)
  /\ pc' = "done"
  /\ UNCHANGED <<fsys, args, sbom, calls>>

Next == CreateEntry \/ CallAnalyzeDir

Spec == Init /\ [][Next]_vars

----------------------------------------------------------------------------
(* Claims about ProjectAnalyzer.AnalyzeDir, checked under Spec. *)

PrunedNames == {"node_modules", "vendor", ".git", "dist", "build"}

\* the manifests of the tree: the files an analyzer's matcher accepts
Manifests(fs) ==
  {p \in DOMAIN fs : fs[p].kind = "file" /\ PathBase(p) \in FileNames}

\* p lies under a directory with a pruned name
UnderPruned(p) == \E k \in 1..(Len(p) - 1) : p[k] \in PrunedNames

\* no walk error cuts p off: every directory above it can be listed and
\* lets its entries be reached
Reachable(fs, p) ==
  \A k \in 1..(Len(p) - 1) : fs[SubSeq(p, 1, k)].mode = "rx"

AnalyzerOf(p) ==
  CHOOSE a \in {analyzers[i] : i \in 1..Len(analyzers)} :
    ManifestName(a) = PathBase(p)

\* the results the parser of a manifest name may return on each file the
\* tree may hold under that name: a parser reads nothing but its own file
ParseTable ==
  [n \in FileNames |->
     [f \in FilesNamed(n) |-> Analyze(AnalyzerOf(<<n>>), (<<n>> :> f), <<n>>)]]

\* the results the parser of manifest p may return
ParsesOf(fs, p) == ParseTable[PathBase(p)][fs[p]]

ParseFails(fs, p) == \A r \in ParsesOf(fs, p) : r.err

\* the records parsed from manifest p, in one of the orders of its parser
RecordsOf(fs, p) == (CHOOSE r \in ParsesOf(fs, p) : TRUE).components

Times(r, s) == Cardinality({i \in 1..Len(s) : s[i] = r})

\* the records of every manifest of the tree
AllRecords(fs) == [p \in Manifests(fs) |-> RecordsOf(fs, p)]

\* how often record r occurs among the records recs of the manifests P
Occurrences(r, recs, P) ==
  Cardinality({pi \in UNION {{<<p, i>> : i \in 1..Len(recs[p])} : p \in P} :
                 recs[pi[1]][pi[2]] = r})

RecordsIn(recs) ==
  UNION {{recs[p][i] : i \in 1..Len(recs[p])} : p \in DOMAIN recs}

\* C1: AnalyzeDir never returns a record parsed from a file under a directory
\* named node_modules, vendor, .git, dist or build, at any depth: no record
\* is returned more often than the manifests outside those directories yield
\* it.  A manifest outside every such directory, in directories the walk can
\* list and enter, is parsed and its records are included in the result.
C1_PrunedDirectoriesSkipped ==
  pc = "done" =>
    LET recs == AllRecords(fsys)
        outside == {p \in Manifests(fsys) : ~UnderPruned(p)}
        reached == {p \in outside : Reachable(fsys, p)}
    IN  \A r \in RecordsIn(recs)
                   \cup {ret.components[i] : i \in 1..Len(ret.components)} :
          /\ Times(r, ret.components) <= Occurrences(r, recs, outside)
          /\ Times(r, ret.components) >= Occurrences(r, recs, reached)

\* the tree of TestProjectAnalyzer_AnalyzeDir_SkipsNodeModules with the same
\* package.json inside node_modules has been analyzed into one record
C1_Witness ==
  /\ pc = "done"
  /\ DOMAIN fsys = {Root, Append(Root, "package.json"),
                    Append(Root, "node_modules"),
                    <<"proj", "node_modules", "package.json">>}
  /\ fsys[Append(Root, "package.json")] = File(PkgOne)
  /\ fsys[<<"proj", "node_modules", "package.json">>] = File(PkgOne)
  /\ Len(ret.components) = 1
  /\ ret.components[1].Name = <<"e","x","p","r","e","s","s">>

\* the position of a name in the order of a directory listing
Rank(name) == CHOOSE i \in 1..Len(NameOrder) : NameOrder[i] = name

\* p is visited before q: p is above q, or sorts first where they part
Before(p, q) ==
  \/ Len(p) < Len(q) /\ SubSeq(q, 1, Len(p)) = p
  \/ \E k \in 1..Len(p) :
       /\ k <= Len(q)
       /\ SubSeq(p, 1, k - 1) = SubSeq(q, 1, k - 1)
       /\ p[k] # q[k]
       /\ Rank(p[k]) < Rank(q[k])

\* the paths P in the order the walk visits them
InVisitOrder(P) ==
  CHOOSE s \in [1..Cardinality(P) -> P] :
    \A i, j \in 1..Cardinality(P) : i < j => Before(s[i], s[j])

\* the results of concatenating, in order, one parse of each manifest that
\* parses
RECURSIVE Concatenations(_, _)
Concatenations(fs, ps) ==
  IF ps = <<>> THEN {<<>>}
  ELSE {(IF r.err THEN <<>> ELSE r.components) \o rest :
          r \in ParsesOf(fs, Head(ps)), rest \in Concatenations(fs, Tail(ps))}

Visited(fs) ==
  {p \in Manifests(fs) : ~UnderPruned(p) /\ Reachable(fs, p)}

\* C2: when a matched parser fails on a file (a package.json that is not
\* valid JSON or holds a non-string dependency value, a manifest that cannot
\* be read), AnalyzeDir adds no record for it, keeps the records accumulated
\* so far, continues the walk, and returns a nil error with the records of
\* every other manifest it visits.
C2_ParserFailureSkipsFile ==
  (/\ pc = "done"
   /\ \E p \in Visited(fsys) : ParseFails(fsys, p))
  => /\ ~ret.err
     /\ ret.components
          \in Concatenations(fsys, InVisitOrder(Visited(fsys)))

\* a tree with a manifest before and a manifest after a package.json that is
\* not valid JSON has been analyzed into the records of the other two
C2_Witness ==
  /\ pc = "done"
  /\ DOMAIN fsys = {Root, Append(Root, "go.mod"),
                    Append(Root, "package.json"),
                    Append(Root, "requirements.txt")}
  /\ fsys[Append(Root, "package.json")] = File(Malformed)
  /\ ~ret.err
  /\ Len(ret.components) = 2
  /\ ret.components[1].Supplier = <<"g","o">>
  /\ ret.components[2].Supplier = <<"p","y","p","i">>

\* C3: when the root path given to AnalyzeDir does not exist or cannot be
\* read, AnalyzeDir returns a non-nil error and no records.
C3_UnreadableRootIsAnError ==
  (/\ pc = "done"
   /\ (Root \notin DOMAIN fsys \/ fsys[Root].mode = "none"))
  => /\ ret.err
     /\ ret.components = <<>>

----------------------------------------------------------------------------
(* Two runs of AnalyzeDir over the same tree: the first has returned ret,  *)
(* the second may return any member of AnalyzeDir(fsys, Root).             *)

\* a package.json of the tree that parses and holds a map of two or more
\* entries
HasLargeMap(fs, p) ==
  /\ PathBase(p) = "package.json"
  /\ ReadFileOk(fs, p)
  /\ UnmarshalOk(fs[p].data)
  /\ \E f \in {"dependencies", "devDependencies"} :
       Cardinality(DOMAIN StringMapOf(fs[p].data, f)) >= 2

SameContent(s, t) ==
  /\ Len(s) = Len(t)
  /\ \A i \in 1..Len(s) : Times(s[i], s) = Times(s[i], t)

\* C11 as stated: a second run of AnalyzeDir over the unchanged tree returns
\* a list equal to the first in content and in order, also when a
\* package.json declares two or more dependencies.
C11_RunsEqualInOrder ==
  pc = "done" => \A r \in AnalyzeDir(fsys, Root) : r = ret

\* C11 amended: a second run of AnalyzeDir over the unchanged tree returns
\* nil error and the same records the same number of times; the two lists
\* are equal in order as well when no visited package.json holds a map of
\* two or more entries.
C11_RunsEqualInContent ==
  pc = "done" =>
    \A r \in AnalyzeDir(fsys, Root) :
      /\ r.err = ret.err
      /\ SameContent(r.components, ret.components)
      /\ (\A p \in Visited(fsys) : ~HasLargeMap(fsys, p)) => r = ret

\* a tree whose package.json declares two dependencies has been analyzed,
\* and a second run may return them in the other order
C11_Witness ==
  /\ pc = "done"
  /\ Append(Root, "package.json") \in DOMAIN fsys
  /\ fsys[Append(Root, "package.json")] = File(PkgThree)
  /\ Len(ret.components) = 3
  /\ \E r \in AnalyzeDir(fsys, Root) :
       /\ r # ret
       /\ SameContent(r.components, ret.components)

----------------------------------------------------------------------------
(* The supplier and the PURL of the records. *)

\* analyzer.Name() of a registered analyzer
Name(a) ==
  CASE a = "npm"   -> NPMName
    [] a = "pypi"  -> PyPIName
    [] a = "go"    -> GoName
    [] a = "cargo" -> CargoName
    [] a = "maven" -> MavenName

Ecosystems ==
  {<<"n","p","m">>, <<"p","y","p","i">>, <<"g","o">>,
   <<"c","a","r","g","o">>, <<"m","a","v","e","n">>}

\* the PURL of a record is derived from its own supplier, name and version
WellFormed(c) ==
  /\ c.Supplier \in Ecosystems
  /\ c.PURL = <<"p","k","g",":">> \o c.Supplier \o <<"/">> \o c.Name
                 \o <<"@">> \o c.Version

\* C12: every record a parser produces from a manifest of the tree, and
\* every record AnalyzeDir returns, has a supplier among npm, pypi, go,
\* cargo, maven, equal to Name() of the parser that created it, and a PURL
\* equal to "pkg:" + supplier + "/" + name + "@" + version of the record.
C12_SupplierAndPURL ==
  pc = "done" =>
    /\ \A i \in 1..Len(ret.components) : WellFormed(ret.components[i])
    /\ \A p \in Manifests(fsys) :
         \A r \in ParsesOf(fsys, p) :
           \A i \in 1..Len(r.components) :
             /\ WellFormed(r.components[i])
             /\ r.components[i].Supplier = Name(AnalyzerOf(p))

\* a tree with a go.mod and a Cargo.toml has been analyzed into a go record,
\* named by the last element of its module path, and a cargo record
C12_Witness ==
  /\ pc = "done"
  /\ Len(ret.components) = 2
  /\ ret.components[1].Supplier = <<"c","a","r","g","o">>
  /\ ret.components[2].Supplier = <<"g","o">>
  /\ ret.components[2].Name = <<"g","i","n">>
  /\ ret.components[2].PURL = <<"p","k","g",":","g","o","/","g","i","n","@","v","1",".","9",".","0">>

----------------------------------------------------------------------------
(* The aggregate result. *)

\* the places of the records of the manifests P: manifest and index
Places(fs, P) ==
  UNION {{<<p, i>> : i \in 1..Len(RecordsOf(fs, p))} : p \in P}

\* a root holding only a package.json with one dependency is analyzed
\* into that one record
SingleManifestYieldsOne ==
  (/\ pc = "done"
   /\ DOMAIN fsys = {Root, Append(Root, "package.json")}
   /\ fsys[Root] = Dir("rx")
   /\ fsys[Append(Root, "package.json")] = File(PkgOne))
  => /\ Len(ret.components) = 1
     /\ ret.components[1].Name = <<"e","x","p","r","e","s","s">>

\* C13: the AnalyzeDir result is exactly the concatenation, in the order the
\* walk visits the matching manifests, of the record sequence of each file
\* that parses, in the order its parser emitted it: nothing is reordered,
\* dropped or deduplicated, and the length of the result is the sum of the
\* record counts of the files; a root holding only a package.json with one
\* dependency yields that one record.
C13_ResultIsConcatenation ==
  pc = "done" =>
    /\ ~ret.err
    /\ ret.components \in Concatenations(fsys, InVisitOrder(Visited(fsys)))
    /\ Len(ret.components) = Cardinality(Places(fsys, Visited(fsys)))
    /\ SingleManifestYieldsOne

\* two package.json declaring the same name and version, one in the root
\* and one in src, have been analyzed into two equal records
C13_Witness ==
  /\ pc = "done"
  /\ DOMAIN fsys = {Root, Append(Root, "package.json"), Append(Root, "src"),
                    <<"proj", "src", "package.json">>}
  /\ fsys[Append(Root, "package.json")] = File(PkgOne)
  /\ fsys[<<"proj", "src", "package.json">>] = File(PkgOne)
  /\ Len(ret.components) = 2
  /\ ret.components[1] = ret.components[2]

----------------------------------------------------------------------------
(* The matchers. *)

\* the manifest name of each ecosystem
ManifestOf ==
  ("npm" :> "package.json") @@ ("pypi" :> "requirements.txt")
  @@ ("go" :> "go.mod") @@ ("cargo" :> "Cargo.toml") @@ ("maven" :> "pom.xml")

\* the registered analyzers whose matcher accepts a path
Accepting(path) ==
  {i \in 1..Len(analyzers) : ShouldAnalyze(analyzers[i], path)}

\* C15: for every path of the tree at most one of the five matchers, tried
\* in the order npm, PyPI, Go, Cargo, Maven, accepts it, a matcher accepts a
\* path exactly when its base name is the matcher's manifest name, and the
\* callback's loop parses a file with at most one parser: on a manifest
\* the walk visits, and on every path no matcher accepts, the loop leaves
\* what the one accepting parser returns, or nothing.
C15_AtMostOneMatcher ==
  pc = "done" =>
    /\ analyzers = <<"npm", "pypi", "go", "cargo", "maven">>
    /\ \A p \in DOMAIN fsys :
         /\ Cardinality(Accepting(p)) <= 1
         /\ \A i \in 1..Len(analyzers) :
              ShouldAnalyze(analyzers[i], p)
                <=> p[Len(p)] = ManifestOf[analyzers[i]]
    /\ \A p \in Visited(fsys) \cup {q \in DOMAIN fsys : Accepting(q) = {}} :
           RunAnalyzers(<<>>, 1, fsys, p) =
              IF Accepting(p) = {} THEN {<<>>}
              ELSE {IF r.err THEN <<>> ELSE r.components :
                      r \in ParsesOf(fsys, p)}

\* a root holding a package.json and a pom.xml has been analyzed: each file
\* was parsed by its own parser only
C15_Witness ==
  /\ pc = "done"
  /\ DOMAIN fsys = {Root, Append(Root, "package.json"),
                    Append(Root, "pom.xml")}
  /\ fsys[Append(Root, "package.json")] = File(PkgOne)
  /\ Len(ret.components) = 2
  /\ ret.components[1].Supplier = <<"n","p","m">>
  /\ ret.components[2].Supplier = <<"m","a","v","e","n">>

----------------------------------------------------------------------------
(* Walk errors below the root. *)

\* the walk reports an error for entry p below the root: the walk reaches
\* the directory holding p, and either that directory does not let its
\* entries be reached, or p is a directory that cannot be listed
WalkErrorAt(fs, p) ==
  /\ Len(p) > 1
  /\ ~UnderPruned(p)
  /\ Reachable(fs, Parent(p))
  /\ fs[Parent(p)].mode # "none"
  /\ \/ fs[Parent(p)].mode = "r"
     \/ IsDir(fs, p) /\ ~IsPruned(PathBase(p)) /\ fs[p].mode = "none"

\* the manifests at or below an entry
ManifestsUnder(fs, p) ==
  {q \in Manifests(fs) : Len(q) >= Len(p) /\ SubSeq(q, 1, Len(p)) = p}

\* C25: when the walk reports an error for an entry below the root, such as
\* a subdirectory that cannot be listed, AnalyzeDir skips the entry, runs no
\* parser on it or below it, continues with the remaining entries, and
\* returns a nil error with the records of the manifests it visits in the
\* rest of the tree.
C25_WalkErrorSkipsEntry ==
  (/\ pc = "done"
   /\ \E p \in DOMAIN fsys : WalkErrorAt(fsys, p))
  => /\ ~ret.err
     /\ \A p \in DOMAIN fsys :
          WalkErrorAt(fsys, p) => ManifestsUnder(fsys, p) \cap Visited(fsys) = {}
     /\ ret.components
          \in Concatenations(fsys, InVisitOrder(Visited(fsys)))

\* a root holding a go.mod, a directory lib that cannot be listed and a
\* requirements.txt has been analyzed: the walk went on after lib and the
\* records of both files are returned
C25_Witness ==
  /\ pc = "done"
  /\ DOMAIN fsys = {Root, Append(Root, "go.mod"), Append(Root, "lib"),
                    Append(Root, "requirements.txt")}
  /\ fsys[Root] = Dir("rx")
  /\ fsys[Append(Root, "lib")] = Dir("none")
  /\ WalkErrorAt(fsys, Append(Root, "lib"))
  /\ ~ret.err
  /\ Len(ret.components) = 2
  /\ ret.components[1].Supplier = <<"g","o">>
  /\ ret.components[2].Supplier = <<"p","y","p","i">>

----------------------------------------------------------------------------
(* DetectProjectType, and the specification SpecDetect: a directory is     *)
(* laid out as TestDetectProjectType lays it out, then DetectProjectType   *)
(* is called on it.                                                        *)

Unknown == <<"u","n","k","n","o","w","n">>

\* os.ReadDir succeeds: the directory exists and can be listed
ReadDirOk(fs, dir) ==
  /\ dir \in DOMAIN fs
  /\ fs[dir].kind = "dir"
  /\ fs[dir].mode # "none"

\* the switch over the name of an entry: the tag returned, or <<>> when no
\* case matches
SwitchName(name) ==
  CASE name = "package.json" -> <<"n","p","m">>
    [] name = "requirements.txt" \/ name = "setup.py"
         \/ name = "pyproject.toml" -> <<"p","y","p","i">>
    [] name = "go.mod" -> <<"g","o">>
    [] name = "Cargo.toml" -> <<"c","a","r","g","o">>
    [] name = "pom.xml" -> <<"m","a","v","e","n">>
    [] OTHER -> <<>>

\* a detection that prefers the ecosystems in the order of the switch
DetectProjectType_BySwitchOrder(fs, dir) ==
  IF ~ReadDirOk(fs, dir) THEN Unknown
  ELSE LET names == readDirNames(fs, dir)
           tags  == <<<<"n","p","m">>, <<"p","y","p","i">>, <<"g","o">>,
                      <<"c","a","r","g","o">>, <<"m","a","v","e","n">>>>
           found == {k \in 1..Len(tags) :
                       \E i \in 1..Len(names) : SwitchName(names[i]) = tags[k]}
       IN  IF found = {} THEN Unknown ELSE tags[SetMin(found)]

\* the loop over the entries, from entry i on
RECURSIVE DetectLoop(_, _)
DetectLoop(files, i) ==
  IF i > Len(files) THEN Unknown
  ELSE IF SwitchName(files[i]) # <<>> THEN SwitchName(files[i])
  ELSE DetectLoop(files, i + 1)

DetectProjectType(fs, dir) ==
  IF ~ReadDirOk(fs, dir) THEN Unknown
  ELSE DetectLoop(readDirNames(fs, dir), 1)

\* the names TestDetectProjectType writes, and the other signature names
DetectNames ==
  {"package.json", "requirements.txt", "setup.py", "pyproject.toml",
   "go.mod", "Cargo.toml", "pom.xml", "README.md"}

TestFile == File(<<"t","e","s","t">>)

\* the directories DetectProjectType is called on: missing, or holding some
\* of the names and possibly a subdirectory src with a package.json
DetectInputs ==
  {NoFiles}
  \cup {(Root :> Dir(m)) @@ [p \in {Append(Root, n) : n \in ns} |-> TestFile]
           @@ sub :
         m \in {"rx", "none"}, ns \in SUBSET DetectNames,
         sub \in {NoFiles,
                  (Append(Root, "src") :> Dir("rx"))
                    @@ (<<"proj", "src", "package.json">> :> File(PkgOne))}}

InitDetect ==
  /\ fsys \in DetectInputs
  /\ pc = "start"
  /\ ret = NoResult
  /\ NoCall

CallDetectProjectType ==
  /\ pc = "start"
  /\ ret' = DetectProjectType(fsys, Root)
  /\ pc' = "detected"
  /\ UNCHANGED <<fsys, args, sbom, calls>>

NextDetect == CallDetectProjectType

SpecDetect == InitDetect /\ [][NextDetect]_vars

----------------------------------------------------------------------------
(* Claims about DetectProjectType, checked under SpecDetect. *)

\* the ecosystem tag of a signature name
TagOf ==
  [n \in {"package.json"} |-> <<"n","p","m">>]
  @@ [n \in {"requirements.txt", "setup.py", "pyproject.toml"} |->
        <<"p","y","p","i">>]
  @@ [n \in {"go.mod"} |-> <<"g","o">>]
  @@ [n \in {"Cargo.toml"} |-> <<"c","a","r","g","o">>]
  @@ [n \in {"pom.xml"} |-> <<"m","a","v","e","n">>]

\* the names of the immediate entries of a directory
EntryNames(fs, dir) ==
  {p[Len(p)] : p \in {q \in DOMAIN fs : Len(q) = Len(dir) + 1
                                          /\ SubSeq(q, 1, Len(dir)) = dir}}

CanBeRead(fs, dir) == dir \in DOMAIN fs /\ fs[dir].mode = "rx"

\* C14: DetectProjectType looks only at the immediate entries of the
\* directory and returns the tag of the first entry, in listing order, whose
\* name is a signature; it returns "unknown" when no entry is a signature or
\* the directory cannot be read, ignores signatures in subdirectories, and
\* always returns one of the six tags.
C14_FirstSignatureInListing ==
  pc = "detected" =>
    LET sigs == EntryNames(fsys, Root) \cap DOMAIN TagOf
    IN  /\ ret \in {TagOf[n] : n \in DOMAIN TagOf} \cup {Unknown}
        /\ (~CanBeRead(fsys, Root) \/ sigs = {}) => ret = Unknown
        /\ (CanBeRead(fsys, Root) /\ sigs # {}) =>
             \E n \in sigs :
               /\ \A m \in sigs : Rank(n) <= Rank(m)
               /\ ret = TagOf[n]

\* a directory holding go.mod, package.json and README.md, with another
\* package.json in src, has been detected as go: go.mod is listed first
C14_Witness ==
  /\ pc = "detected"
  /\ EntryNames(fsys, Root) = {"README.md", "go.mod", "package.json", "src"}
  /\ <<"proj", "src", "package.json">> \in DOMAIN fsys
  /\ ret = <<"g","o">>

----------------------------------------------------------------------------
(* Package sbom: the SBOM object.  Its Created time is left out.  The      *)
(* names given to New and the references of a relationship are opaque, so  *)
(* they are kept as strings.                                               *)

\* sbom.New
New(name, version, serialNumber) ==
  [SpecVersion   |-> "0.24.0",
   Name          |-> name,
   Version       |-> version,
   SerialNumber  |-> serialNumber,
   Components    |-> <<>>,
   Relationships |-> <<>>,
   Annotations   |-> <<>>]

\* an AddComponent that merges components equal in name and version
AddComponent_Merging(s, component) ==
  IF \E i \in 1..Len(s.Components) :
       /\ s.Components[i].Name = component.Name
       /\ s.Components[i].Version = component.Version
  THEN s
  ELSE [s EXCEPT !.Components = Append(@, component)]

\* SBOM.AddComponent
AddComponent(s, component) ==
  [s EXCEPT !.Components = Append(@, component)]

\* SBOM.AddRelationship
AddRelationship(s, refA, refB, relationship) ==
  [s EXCEPT !.Relationships =
     Append(@, [RefA |-> refA, RefB |-> refB, Relationship |-> relationship])]

\* SBOM.Count
Count(s) == Len(s.Components)

----------------------------------------------------------------------------
(* Package formatter.  A document is kept as its format and the component  *)
(* names written into it, in order; the rest of its text is left out.      *)

Formats == {"spdx", "cyclonedx", "json", "yaml", "markdown", "table"}

\* GetFormatter: the Name() of the formatter returned
GetFormatter(format) == IF format \in Formats THEN format ELSE "json"

\* truncate(s, max)
truncate(s, max) ==
  IF Len(s) <= max THEN s ELSE SubSeq(s, 1, max - 3) \o <<".", ".", ".">>

Document(f, names) == [format |-> f, names |-> names]

NoDocument == Document("", <<>>)

\* CycloneDXFormatter.FormatJSON
FormatJSON(s) == [out |-> NoDocument, err |-> TRUE]

\* Formatter.Format of the formatter named f
Format(f, s) ==
  CASE f = "cyclonedx" -> FormatJSON(s)
    [] f = "table" ->
         [out |-> Document(f, [i \in 1..Len(s.Components) |->
                                 truncate(s.Components[i].Name, 30)]),
          err |-> FALSE]
    [] OTHER ->
         [out |-> Document(f, [i \in 1..Len(s.Components) |->
                                 s.Components[i].Name]),
          err |-> FALSE]

----------------------------------------------------------------------------
(* Specification SpecProject: the two calls generate and analyze make on   *)
(* the resolved project directory, DetectProjectType and then AnalyzeDir.  *)
(* args holds the path of the directory; ret holds the detected type and,  *)
(* after the second call, the components and the error of AnalyzeDir.      *)

\* the base names of the project directory
ProjectNames == {"proj", "node_modules", "vendor", ".git", "dist", "build"}

\* the text of a requirement line, which PyPIAnalyzer would parse
SignatureText == <<"f","l","a","s","k","=","=","2",".","2",".","0">>

\* the file a project holds under a name
ProjectFile(name) ==
  IF name = "package.json" THEN File(PkgOne)
  ELSE IF name \in FileNames THEN CHOOSE f \in FilesNamed(name) : TRUE
  ELSE File(SignatureText)

\* the trees of a project directory: the directory holds some of the
\* signature names and possibly a subdirectory src with a go.mod
ProjectTrees(root) ==
  {(root :> Dir(m))
     @@ [p \in {Append(root, n) : n \in ns} |-> ProjectFile(PathBase(p))]
     @@ sub :
     m \in {"rx", "none"}, ns \in SUBSET DetectNames,
     sub \in {NoFiles,
              (Append(root, "src") :> Dir("rx"))
                @@ (root \o <<"src", "go.mod">> :> ProjectFile("go.mod"))}}

InitProject ==
  /\ args \in {<<n>> : n \in ProjectNames}
  /\ fsys \in ProjectTrees(args)
  /\ pc = "start"
  /\ ret = NoResult
  /\ sbom = "nil"
  /\ calls = <<>>

\* projectType := analyzer.DetectProjectType(absDir)
ProjectDetect ==
  /\ pc = "start"
  /\ ret' = [projectType |-> DetectProjectType(fsys, args),
             components |-> <<>>, err |-> FALSE]
  /\ pc' = "detected"
  /\ UNCHANGED <<fsys, args, sbom, calls>>

\* components, err := analyzer.AnalyzeDir(absDir)
ProjectAnalyze ==
  /\ pc = "detected"
  /\ \E r \in AnalyzeDir(fsys, args) :
       ret' = [projectType |-> ret.projectType,
               components |-> r.components, err |-> r.err]
  /\ pc' = "analyzed"
  /\ UNCHANGED <<fsys, args, sbom, calls>>

NextProject == ProjectDetect \/ ProjectAnalyze

SpecProject == InitProject /\ [][NextProject]_vars

----------------------------------------------------------------------------
(* Claims about the project directory, checked under SpecProject. *)

\* C26: pruning is applied to the root directory itself.  When the base name
\* of the directory given to AnalyzeDir is node_modules, vendor, .git, dist
\* or build, AnalyzeDir visits nothing below it and returns an empty result
\* with a nil error, whatever manifests the directory holds.
C26_PrunedRootYieldsNothing ==
  (/\ pc = "analyzed"
   /\ IsDir(fsys, args)
   /\ PathBase(args) \in PrunedNames)
  => /\ ~ret.err
     /\ ret.components = <<>>

\* a directory dist that holds a package.json and a src with a go.mod has
\* been detected as npm and analyzed into no record
C26_Witness ==
  /\ pc = "analyzed"
  /\ args = <<"dist">>
  /\ fsys[args].mode = "rx"
  /\ <<"dist", "package.json">> \in DOMAIN fsys
  /\ fsys[<<"dist", "package.json">>] = File(PkgOne)
  /\ <<"dist", "src", "go.mod">> \in DOMAIN fsys
  /\ ret.projectType = <<"n","p","m">>
  /\ ~ret.err
  /\ ret.components = <<>>

\* the manifests of the project in the order the walk visits them: those of
\* the directory in the order of its listing, then the go.mod of src
ProjectOrder(fs, root) ==
  LET names == SelectSeq(NameOrder,
                         LAMBDA n : n \in FileNames
                                    /\ Append(root, n) \in DOMAIN fs)
      RECURSIVE Paths(_)
      Paths(i) == IF i > Len(names) THEN <<>>
                  ELSE <<Append(root, names[i])>> \o Paths(i + 1)
  IN  Paths(1) \o (IF root \o <<"src", "go.mod">> \in DOMAIN fs
                   THEN <<root \o <<"src", "go.mod">>>> ELSE <<>>)

\* the signature names the directory holds
SignaturesIn(fs, root) ==
  {n \in DetectNames : SwitchName(n) # <<>> /\ Append(root, n) \in DOMAIN fs}

\* C27: DetectProjectType and AnalyzeDir are independent and can disagree.
\* Whatever type was detected, AnalyzeDir returns the records of every
\* manifest of a listable project directory without a pruned name, in the
\* order of the walk; and for a listable directory whose only signature
\* files are setup.py or pyproject.toml, in a tree without a manifest, the
\* type detected is pypi while AnalyzeDir returns no record and a nil error.
C27_DetectionAndAnalysisIndependent ==
  pc = "analyzed" =>
    /\ (fsys[args].mode = "rx" /\ PathBase(args) \notin PrunedNames)
       => /\ ~ret.err
          /\ ret.components
               \in Concatenations(fsys, ProjectOrder(fsys, args))
    /\ (/\ fsys[args].mode = "rx"
        /\ SignaturesIn(fsys, args) # {}
        /\ SignaturesIn(fsys, args) \subseteq {"setup.py", "pyproject.toml"}
        /\ Manifests(fsys) = {})
       => /\ ret.projectType = <<"p","y","p","i">>
          /\ ~ret.err
          /\ ret.components = <<>>

\* a directory that holds nothing but a setup.py has been detected as pypi
\* and analyzed into no record
C27_Witness ==
  /\ pc = "analyzed"
  /\ args = <<"proj">>
  /\ DOMAIN fsys = {<<"proj">>, <<"proj", "setup.py">>}
  /\ fsys[args].mode = "rx"
  /\ ret.projectType = <<"p","y","p","i">>
  /\ ~ret.err
  /\ ret.components = <<>>

----------------------------------------------------------------------------
(* The command line: run, generate and analyze of package main.  What is   *)
(* printed is left out; an outcome holds the error returned, the directory *)
(* analyzed, the detected type, the components found and, for gen, the     *)
(* SBOM, the document and the output file.                                 *)

appName == "sbomgen"

version == "1.0.0"

\* the working directory of the process
Cwd == <<"cwd">>

\* filepath.Abs of a directory argument
Abs(dir) ==
  CASE dir = "." -> Cwd
    [] dir = "./myproject" -> Append(Cwd, "myproject")
    [] dir = "./myapp" -> Append(Cwd, "myapp")
    [] OTHER -> Append(Cwd, dir)

Exit(err, dir, projectType, components, gen, out, outputFile) ==
  [err |-> err, dir |-> dir, projectType |-> projectType,
   components |-> components, sbom |-> gen, out |-> out,
   outputFile |-> outputFile]

\* a command that analyzes nothing has returned err
Returned(err) == Exit(err, <<>>, <<>>, <<>>, "nil", NoDocument, "")

\* the option loop of generate, from argument i on
RECURSIVE generateArgs(_, _, _)
generateArgs(a, i, st) ==
  IF i > Len(a) THEN st
  ELSE IF a[i] \in {"-o", "--output", "-f", "--format", "-d", "--dir"}
          /\ i + 1 <= Len(a)
  THEN generateArgs(a, i + 2,
         CASE a[i] \in {"-o", "--output"} ->
                [st EXCEPT !.outputFile = a[i + 1]]
           [] a[i] \in {"-f", "--format"} ->
                [st EXCEPT !.outputFormat = a[i + 1]]
           [] a[i] \in {"-d", "--dir"} ->
                [st EXCEPT !.projectDir = a[i + 1]])
  ELSE generateArgs(a, i + 1, st)

\* the option loop of analyze, from argument i on
RECURSIVE analyzeArgs(_, _, _)
analyzeArgs(a, i, projectDir) ==
  IF i > Len(a) THEN projectDir
  ELSE IF a[i] # "-d" /\ a[i] # "--dir"
  THEN analyzeArgs(a, i + 1, projectDir)
  ELSE IF i + 1 <= Len(a) THEN analyzeArgs(a, i + 2, a[i + 1])
  ELSE analyzeArgs(a, i + 1, projectDir)

\* the loop of generate that adds the components to the SBOM
RECURSIVE AddAll(_, _, _)
AddAll(gen, components, i) ==
  IF i > Len(components) THEN gen
  ELSE AddAll(AddComponent(gen, components[i]), components, i + 1)

\* os.WriteFile succeeds: the path does not name a directory
WriteFileOk(fs, name) ==
  ~(Abs(name) \in DOMAIN fs /\ fs[Abs(name)].kind = "dir")

\* the file system after os.WriteFile
WriteFile(fs, name, data) ==
  [p \in DOMAIN fs \cup {Abs(name)} |->
     IF p = Abs(name) THEN File(data) ELSE fs[p]]

\* generate: every outcome of the call
generate(fs, a) ==
  LET st == generateArgs(a, 1, [outputFile |-> "", outputFormat |-> "",
                                projectDir |-> ""])
      absDir == Abs(IF st.projectDir = "" THEN "." ELSE st.projectDir)
      outputFormat == IF st.outputFormat = "" THEN "json" ELSE st.outputFormat
  IN  {IF r.err THEN Returned(TRUE)
       ELSE LET gen == AddAll(New(appName, version, "sbom-001"),
                              r.components, 1)
                res == Format(GetFormatter(outputFormat), gen)
            IN  IF res.err THEN Returned(TRUE)
                ELSE IF st.outputFile # "" /\ ~WriteFileOk(fs, st.outputFile)
                THEN Returned(TRUE)
                ELSE Exit(FALSE, absDir, DetectProjectType(fs, absDir),
                          r.components, gen, res.out, st.outputFile) :
         r \in AnalyzeDir(fs, absDir)}

\* analyze: every outcome of the call
analyze(fs, a) ==
  LET projectDir == analyzeArgs(a, 1, "")
      absDir == Abs(IF projectDir = "" THEN "." ELSE projectDir)
  IN  {IF r.err THEN Returned(TRUE)
       ELSE Exit(FALSE, absDir, DetectProjectType(fs, absDir), r.components,
                 "nil", NoDocument, "") :
         r \in AnalyzeDir(fs, absDir)}

\* run: every outcome of the call
run(fs, a) ==
  IF Len(a) = 0 THEN {Returned(FALSE)}
  ELSE CASE a[1] = "gen" -> generate(fs, Tail(a))
         [] a[1] = "analyze" -> analyze(fs, Tail(a))
         [] a[1] = "version" -> {Returned(FALSE)}
         [] a[1] \in {"help", "--help", "-h"} -> {Returned(FALSE)}
         [] OTHER -> {Returned(TRUE)}

----------------------------------------------------------------------------
(* Specification SpecCLI: sbomgen is run with a command line in a working  *)
(* directory that holds a package.json and the projects myproject and      *)
(* myapp.                                                                  *)

\* most arguments after the command
MaxArgs == 3

CLITree ==
  (Cwd :> Dir("rx"))
  @@ (Append(Cwd, "package.json") :> File(PkgOne))
  @@ (Append(Cwd, "myproject") :> Dir("rx"))
  @@ (<<"cwd", "myproject", "requirements.txt">> :>
        CHOOSE f \in FilesNamed("requirements.txt") : TRUE)
  @@ (Append(Cwd, "myapp") :> Dir("rx"))
  @@ (<<"cwd", "myapp", "go.mod">> :> CHOOSE f \in FilesNamed("go.mod") : TRUE)

Commands == {"gen", "analyze", "version", "help", "frobnicate"}

ArgTokens ==
  {"-o", "-f", "-d", "--dir", "sbom.json", "cyclonedx", "./myproject",
   "./myapp"}

CommandLines(maxArgs) ==
  {<<>>} \cup {<<c>> \o rest :
                  c \in Commands,
                  rest \in {<<>>} \cup SeqsUpTo(ArgTokens, maxArgs)}

InitCLI ==
  /\ fsys = CLITree
  /\ pc = "start"
  /\ ret = NoResult
  /\ args \in CommandLines(MaxArgs)
  /\ sbom = "nil"
  /\ calls = <<>>

\* main: run(os.Args[1:])
CallRun ==
  /\ pc = "start"
  /\ \E o \in run(fsys, args) :
       /\ ret' = o
       /\ fsys' = IF ~o.err /\ o.outputFile # ""
                  THEN WriteFile(fsys, o.outputFile, o.out)
                  ELSE fsys
  /\ pc' = "exited"
  /\ UNCHANGED <<args, sbom, calls>>

NextCLI == CallRun

SpecCLI == InitCLI /\ [][NextCLI]_vars

----------------------------------------------------------------------------
(* Claims about the command line, checked under SpecCLI. *)

DirTokens == {"./myproject", "./myapp"}

\* a command line as the README writes it: gen or analyze, -o and -f options
\* with their values, then the project directory as the last argument
IsPositionalForm(a) ==
  /\ Len(a) >= 2
  /\ a[1] \in {"gen", "analyze"}
  /\ a[Len(a)] \in DirTokens
  /\ Len(a) % 2 = 0
  /\ \A k \in 1..((Len(a) - 2) \div 2) :
       /\ a[2 * k] \in {"-o", "-f"}
       /\ a[2 * k + 1] \in {"sbom.json", "cyclonedx"}

\* the same command line with the directory given to -d
WithDashD(a) == SubSeq(a, 1, Len(a) - 1) \o <<"-d", a[Len(a)]>>

\* C16: sbomgen gen <dir> and sbomgen analyze <dir> analyze the directory
\* given as the positional argument, the directory -d <dir> would select:
\* the outcome is one that the command line with -d <dir> has.
C16_PositionalDirectory ==
  (pc = "exited" /\ IsPositionalForm(args))
  => /\ ret \in run(CLITree, WithDashD(args))
     /\ ~ret.err => ret.dir = Abs(args[Len(args)])

----------------------------------------------------------------------------
(* Specification SpecSBOM: an SBOM is created by New, components and       *)
(* relationships are added to it as the tests of package sbom add them,    *)
(* and it is formatted.  calls is the log of the calls made on the SBOM.   *)

\* most AddComponent and AddRelationship calls on an SBOM
MaxCalls == 3

\* the components of TestCycloneDXFormatter and TestAddDuplicateComponent
TestComponents ==
  {Component(<<"l","i","b","-","a">>, <<"1",".","0",".","0">>, <<"n","p","m">>, <<>>, <<>>),
   Component(<<"l","i","b","-","b">>, <<"2",".","0",".","0">>, <<"p","y","p","i">>, <<>>, <<>>),
   Component(<<"l","i","b","-","a">>, <<"2",".","0",".","0">>, <<>>, <<>>, <<>>)}

\* the relationships of TestAddRelationship
TestRelationships ==
  {<<"ref-a", "ref-b", "depends_on">>, <<"ref-b", "ref-c", "depends_on">>}

InitSBOM ==
  /\ fsys = NoFiles
  /\ pc = "built"
  /\ ret = NoResult
  /\ args = <<>>
  /\ sbom = New("test-app", "1.0.0", "serial-001")
  /\ calls = <<>>

CallAddComponent ==
  /\ pc = "built"
  /\ Len(calls) < MaxCalls
  /\ \E c \in TestComponents :
       /\ sbom' = AddComponent(sbom, c)
       /\ calls' = Append(calls, [op |-> "AddComponent", arg |-> c])
  /\ UNCHANGED <<fsys, pc, ret, args>>

CallAddRelationship ==
  /\ pc = "built"
  /\ Len(calls) < MaxCalls
  /\ \E r \in TestRelationships :
       /\ sbom' = AddRelationship(sbom, r[1], r[2], r[3])
       /\ calls' = Append(calls, [op |-> "AddRelationship", arg |-> r])
  /\ UNCHANGED <<fsys, pc, ret, args>>

\* GetFormatter(format).Format(sbom)
CallFormat ==
  /\ pc = "built"
  /\ \E format \in Formats \cup {"xml"} :
       /\ args' = <<format>>
       /\ ret' = Format(GetFormatter(format), sbom)
  /\ pc' = "formatted"
  /\ UNCHANGED <<fsys, sbom, calls>>

NextSBOM == CallAddComponent \/ CallAddRelationship \/ CallFormat

SpecSBOM == InitSBOM /\ [][NextSBOM]_vars

----------------------------------------------------------------------------
(* Claims about the formatters and the SBOM, checked under SpecSBOM. *)

\* C17: formatting an SBOM with the cyclonedx format succeeds without error
\* and returns a document that contains the name of every component of the
\* SBOM.
C17_CycloneDXFormats ==
  (pc = "formatted" /\ args = <<"cyclonedx">>)
  => /\ ~ret.err
     /\ \A i \in 1..Len(sbom.Components) :
          \E k \in 1..Len(ret.out.names) :
            ret.out.names[k] = sbom.Components[i].Name

\* the arguments of the calls of one operation, in call order
ArgsOf(op) ==
  LET made == SelectSeq(calls, LAMBDA c : c.op = op)
  IN  [i \in 1..Len(made) |-> made[i].arg]

\* C18: after any sequence of AddComponent and AddRelationship calls on an
\* SBOM created by New, Count() is the number of AddComponent calls made
\* (equal components are not merged), Components holds the added components
\* in call order, and each AddRelationship call has appended exactly one
\* relationship and left Components and Count() as they were.
C18_CountIsCallsMade ==
  pc \in {"built", "formatted"} =>
    /\ Count(sbom) = Len(ArgsOf("AddComponent"))
    /\ sbom.Components = ArgsOf("AddComponent")
    /\ sbom.Relationships =
         [i \in 1..Len(ArgsOf("AddRelationship")) |->
            [RefA |-> ArgsOf("AddRelationship")[i][1],
             RefB |-> ArgsOf("AddRelationship")[i][2],
             Relationship |-> ArgsOf("AddRelationship")[i][3]]]

\* the same component has been added twice with a relationship added in
\* between: Count() is 2
C18_Witness ==
  /\ pc = "built"
  /\ Len(calls) = 3
  /\ calls[1].op = "AddComponent"
  /\ calls[2].op = "AddRelationship"
  /\ calls[3] = calls[1]
  /\ Count(sbom) = 2
  /\ Len(sbom.Relationships) = 1

====
